---- MODULE Spec2Model ----
(***************************************************************************)
(* Cost forecasting engine of azure-cost-optimizer:                        *)
(*   optimizers/forecasting/forecaster.py  (CostForecaster)                *)
(*   optimizers/forecasting/analyzer.py    (CostForecastAnalyzer)          *)
(*   optimizers/forecasting/optimizer.py   (CostForecastOptimizer)         *)
(*                                                                         *)
(* Numbers.  Costs are integers.  A forecast value, a band bound and every *)
(* sum of them is kept in hundredths of a cost unit (ValueScale), so that  *)
(* one multiplication by (1 + index) with the index given in percent is    *)
(* exact.  A quotient is kept as a pair [num, den]; den = 0 is the         *)
(* non-finite value (nan/inf) numpy produces for a division by zero.       *)
(* A calendar month is the integer year * 12 + (month - 1).                *)
(***************************************************************************)
EXTENDS Integers, Sequences, FiniteSets, TLC

VARIABLES
    scaler,     \* CostForecaster.scaler  (StandardScaler)
    model,      \* CostForecaster.model   (RandomForestRegressor)
    inv,        \* concurrent generate_forecast invocations on one forecaster
    source,     \* the external cost source read by _get_historical_costs
    run,        \* the generate_cost_forecast run in progress
    obs,        \* observation list handed to the series/driver functions
    out         \* what those functions returned for obs

vars == <<scaler, model, inv, source, run, obs, out>>

----------------------------------------------------------------------------
(* Bounds of the model *)

MaxMonths == 6

MaxObs == 3

MaxTypes == 6

LookbackMonths == 3

(* Program constants *)

ForecastPeriods == 12

SampleCount == 100

NEstimators == 100

MinHistoricalMonths == 6

ConfidenceLevels == <<95, 80, 50>>

ValueScale == 100

(* Input domains *)

Costs == {1, 2}

StartMonths == {2023 * 12 + 10}

----------------------------------------------------------------------------
(* Calendar *)

YearOf(ym) == ym \div 12

MonthOf(ym) == (ym % 12) + 1

QuarterOf(ym) == ((MonthOf(ym) - 1) \div 3) + 1

IsLeap(y) == (y % 4 = 0 /\ y % 100 # 0) \/ (y % 400 = 0)

DaysInMonth(ym) ==
    LET m == MonthOf(ym)
    IN  IF m = 2 THEN (IF IsLeap(YearOf(ym)) THEN 29 ELSE 28)
        ELSE IF m \in {4, 6, 9, 11} THEN 30 ELSE 31

\* Label of a bin of resample('M'): the last day of the month.
MonthEnd(ym) == [ym |-> ym, day |-> DaysInMonth(ym)]

\* DateOffset with the offset months=i instead of months=i+1.
DateOffsetFromZero(ts, k) ==
    [ym |-> ts.ym + k - 1,
     day |-> IF ts.day < DaysInMonth(ts.ym + k - 1) THEN ts.day
             ELSE DaysInMonth(ts.ym + k - 1)]

\* ts + pd.DateOffset(months=k): the day is clamped to the target month.
DateOffset(ts, k) ==
    [ym |-> ts.ym + k,
     day |-> IF ts.day < DaysInMonth(ts.ym + k) THEN ts.day ELSE DaysInMonth(ts.ym + k)]

\* strftime('%Y-%m-%d'): the text is the triple of its three fields.
Strftime(ts) == <<YearOf(ts.ym), MonthOf(ts.ym), ts.day>>

\* datetime.strptime(s, '%Y-%m-%d')
Strptime(s) == [ym |-> s[1] * 12 + (s[2] - 1), day |-> s[3]]

----------------------------------------------------------------------------
(* Arithmetic helpers *)

\* Sum of s[lo..hi], by halves.
RECURSIVE SumRange(_, _, _)
SumRange(s, lo, hi) ==
    IF lo > hi THEN 0
    ELSE IF lo = hi THEN s[lo]
    ELSE LET mid == (lo + hi) \div 2
         IN  SumRange(s, lo, mid) + SumRange(s, mid + 1, hi)

SeqSum(s) == SumRange(s, 1, Len(s))

Range(s) == {s[i] : i \in DOMAIN s}

\* F applied to the value of v (v is evaluated once).
Bind(v, F(_)) == CHOOSE r \in {F(x) : x \in {v}} : TRUE

MinOf(S) == CHOOSE x \in S : \A y \in S : x <= y

MaxOf(S) == CHOOSE x \in S : \A y \in S : x >= y

Sign(x) == IF x > 0 THEN 1 ELSE IF x < 0 THEN -1 ELSE 0

Abs(x) == IF x < 0 THEN -x ELSE x

None == [isNone |-> TRUE]

IsNone(r) == "isNone" \in DOMAIN r

EmptyDict == [k \in {} |-> 0]

----------------------------------------------------------------------------
(* CostForecaster: data preparation and features *)

ObsMonths(data) == {data[i].date.ym : i \in DOMAIN data}

MonthCost(data, ym) ==
    SeqSum([i \in 1..Len(data) |-> IF data[i].date.ym = ym THEN data[i].cost ELSE 0])

\* The dtype of the 'cost' column of DataFrame(data): int64 when every cost
\* is a Python int, float64 as soon as one is a float.  A cost is written as a
\* float by the field is_float of its observation.
CostDtype(data) ==
    IF \A i \in DOMAIN data : "is_float" \notin DOMAIN data[i] THEN "int64" ELSE "float64"

\* _prepare_data grouping by month instead of resampling: a month without
\* observations gets no row.
PrepareDataGrouped(data) ==
    LET ms == ObsMonths(data)
    IN  [k \in 1..Cardinality(ms) |->
            LET m == CHOOSE x \in ms : Cardinality({z \in ms : z < x}) = k - 1
            IN  [date |-> MonthEnd(m), cost |-> MonthCost(data, m),
                 dtype |-> CostDtype(data)]]

\* _prepare_data: resample('M')['cost'].sum().reset_index().  The bins run
\* from the month of the earliest observation to the month of the latest one;
\* an empty bin sums to 0.  An empty list has no 'date' column: the KeyError
\* is caught and an empty frame is returned.
PrepareData(data) ==
    IF Len(data) = 0 THEN << >>
    ELSE LET lo == MinOf(ObsMonths(data))
             hi == MaxOf(ObsMonths(data))
         IN  [k \in 1..(hi - lo + 1) |->
                 [date |-> MonthEnd(lo + k - 1), cost |-> MonthCost(data, lo + k - 1),
                  dtype |-> CostDtype(data)]]

\* _create_features reading the month and the quarter of the target period.
CreateFeaturesOfTarget(df) ==
    LET n == IF Len(df) > 3 THEN Len(df) - 3 ELSE 0
    IN  [X |-> [i \in 1..n |-> <<df[i].cost, df[i + 1].cost, df[i + 2].cost,
                                 MonthOf(df[i + 3].date.ym), QuarterOf(df[i + 3].date.ym)>>],
         y |-> [i \in 1..n |-> df[i + 3].cost]]

\* _create_features with range(len(df) - 4): the last window is dropped.
CreateFeaturesShort(df) ==
    LET n == IF Len(df) > 4 THEN Len(df) - 4 ELSE 0
    IN  [X |-> [i \in 1..n |-> <<df[i].cost, df[i + 1].cost, df[i + 2].cost,
                                 MonthOf(df[i].date.ym), QuarterOf(df[i].date.ym)>>],
         y |-> [i \in 1..n |-> df[i + 3].cost]]

\* _create_features: one example per i in range(len(df) - 3).
CreateFeatures(df) ==
    LET n == IF Len(df) > 3 THEN Len(df) - 3 ELSE 0
    IN  [X |-> [i \in 1..n |-> <<df[i].cost, df[i + 1].cost, df[i + 2].cost,
                                 MonthOf(df[i].date.ym), QuarterOf(df[i].date.ym)>>],
         y |-> [i \in 1..n |-> df[i + 3].cost]]

----------------------------------------------------------------------------
(* The two library objects a CostForecaster owns *)

NumFeatures == 5

UnfittedScaler == [fitted |-> FALSE, X |-> << >>]

UnfittedModel == [fitted |-> FALSE, X |-> << >>, y |-> << >>]

\* StandardScaler.fit: the state is the column means and deviations of X,
\* kept here as X itself.
FitScaler(X) == [fitted |-> TRUE, X |-> X]

ColSum(X, j) == SeqSum([i \in 1..Len(X) |-> X[i][j]])

\* StandardScaler.transform: (v - mean) / scale per column.  The regressor
\* below only separates values at the column mean, so a standardised value is
\* carried as its sign: the sign of n * v - sum(column).
Transform(sc, fv) ==
    [j \in 1..NumFeatures |-> Sign(Len(sc.X) * fv[j] - ColSum(sc.X, j))]

\* The same for a vector given in hundredths.
TransformHundredths(sc, fv) ==
    [j \in 1..NumFeatures |-> Sign(Len(sc.X) * fv[j] - ValueScale * ColSum(sc.X, j))]

\* train_test_split(test_size=0.2, random_state=42): n_test = ceil(0.2 n),
\* n_train = n - n_test; the seeded shuffle is a fixed permutation of 1..n.
NTest(n) == (n + 4) \div 5

Shuffle(n) == [i \in 1..n |-> n + 1 - i]

TrainIndices(n) == [i \in 1..(n - NTest(n)) |-> Shuffle(n)[NTest(n) + i]]

\* RandomForestRegressor.fit with a fixed random_state: the fitted state is
\* a function of the training rows only.
FitModel(Xs, y) == [fitted |-> TRUE, X |-> Xs, y |-> y]

\* The training rows that agree with the query on most columns.
NearestRows(md, sv) ==
    LET Agree(i) == Cardinality({j \in 1..NumFeatures : md.X[i][j] = sv[j]})
    IN  {i \in 1..Len(md.X) : \A k \in 1..Len(md.X) : Agree(i) >= Agree(k)}

\* model.estimators_[k].predict for every k, in hundredths: a tree grown on
\* its own bootstrap resample answers with the target of one nearest row, the
\* trees taking the nearest rows in turn.
EstimatorPredictions(md, sv) ==
    Bind(NearestRows(md, sv),
         LAMBDA best :
            [k \in 1..NEstimators |->
                LET r == ((k - 1) % Cardinality(best)) + 1
                IN  ValueScale * md.y[CHOOSE i \in best : Cardinality({z \in best : z < i}) = r - 1]])

\* RandomForestRegressor.predict: deterministic for a fitted forest; the mean
\* of the predictions of its estimators.
Predict(md, sv) == SeqSum(EstimatorPredictions(md, sv)) \div NEstimators

\* _train_model: fit_transform, split, fit.  The ValueError of an empty
\* train set (a single example) is caught and logged: the scaler is then
\* already refitted and the model is left as it was.
TrainModel(sc, md, X, y) ==
    LET sc2 == FitScaler(X)
        Xs == [i \in 1..Len(X) |-> Transform(sc2, X[i])]
        idx == TrainIndices(Len(X))
    IN  IF Len(idx) = 0
        THEN [scaler |-> sc2, model |-> md, fit_failed |-> TRUE]
        ELSE [scaler |-> sc2,
              model |-> FitModel([i \in 1..Len(idx) |-> Xs[idx[i]]],
                                 [i \in 1..Len(idx) |-> y[idx[i]]]),
              fit_failed |-> FALSE]

----------------------------------------------------------------------------
(* CostForecaster._generate_predictions and what it calls *)

\* np.percentile(samples, q) with linear interpolation between the two
\* nearest order statistics; q2 = 2 * q, sorted = the samples in order.
Percentile(sorted, q2) ==
    LET pos == q2 * (Len(sorted) - 1)
        lo == (pos \div 200) + 1
        a == sorted[lo]
        b == IF lo < Len(sorted) THEN sorted[lo + 1] ELSE a
    IN  (200 * a + (pos % 200) * (b - a)) \div 200

\* The band taken as the median scaled by the level: [m * level, m * (2 - level)].
ConfidenceIntervalScaled(samples, level) ==
    Bind(SortSeq(samples, LAMBDA x, y : x < y),
         LAMBDA sorted : [lower |-> (Percentile(sorted, 100) * level) \div 100,
                          upper |-> (Percentile(sorted, 100) * (200 - level)) \div 100])

\* np.percentile(predictions, [(100-level*100)/2, 50+level*100/2])
ConfidenceInterval(samples, level) ==
    Bind(SortSeq(samples, LAMBDA x, y : x < y),
         LAMBDA sorted : [lower |-> Percentile(sorted, 100 - level),
                          upper |-> Percentile(sorted, 100 + level)])

Levels == Range(ConfidenceLevels)

\* The 100 calls of self.model.predict on one scaled feature vector.
BootstrapPredictions(md, scaled) ==
    Bind(Predict(md, scaled), LAMBDA p : [k \in 1..SampleCount |-> p])

\* last_costs[-1] = mean_pred: an int64 array keeps the integer part of the
\* float stored into it, a float64 array the float.
StoreInto(dtype, mean_pred) ==
    IF dtype = "int64" THEN ValueScale * (mean_pred \div ValueScale) ELSE mean_pred

\* np.roll(last_costs, -1) followed by last_costs[-1] = mean_pred.
RollWindow(last_costs, dtype, mean_pred) ==
    <<last_costs[2], last_costs[3], StoreInto(dtype, mean_pred)>>

\* The scaled feature vector of the period of next_date (lines 122-131).
ScaledFeatures(st, next_date, sc) ==
    TransformHundredths(sc, <<st.last_costs[1], st.last_costs[2], st.last_costs[3],
                              ValueScale * MonthOf(next_date.ym),
                              ValueScale * QuarterOf(next_date.ym)>>)

\* One iteration of the loop of _generate_predictions for next_date: the
\* forecast and band entries are appended and the window is rolled.
\* st = [last_costs, dtype, forecasts, confidence_intervals, steps]; values in
\* hundredths; steps records the feature vector, the values of the 100
\* predictions, the values the estimators of the forest predict for the
\* vector, the mean and the percentile intervals of each period.
PredictionStep(st, next_date, sc, md) ==
    Bind(BootstrapPredictions(md, ScaledFeatures(st, next_date, sc)),
         LAMBDA predictions :
            Bind(SeqSum(predictions) \div SampleCount,
                 LAMBDA mean_pred :
                    [last_costs |-> RollWindow(st.last_costs, st.dtype, mean_pred),
                     dtype |-> st.dtype,
                     steps |-> Append(st.steps,
                                      [window |-> st.last_costs,
                                       date |-> Strftime(next_date),
                                       month |-> MonthOf(next_date.ym),
                                       quarter |-> QuarterOf(next_date.ym),
                                       mean_pred |-> mean_pred,
                                       samples |-> Range(predictions),
                                       estimators |->
                                           Range(EstimatorPredictions(md,
                                                     ScaledFeatures(st, next_date, sc))),
                                       intervals |-> [l \in Levels |->
                                                         ConfidenceInterval(predictions, l)]]),
                     forecasts |-> Append(st.forecasts,
                                          [date |-> Strftime(next_date),
                                           forecast |-> mean_pred]),
                     confidence_intervals |->
                        [l \in Levels |->
                            Bind(ConfidenceInterval(predictions, l),
                                 LAMBDA b : Append(st.confidence_intervals[l],
                                                   [date |-> Strftime(next_date),
                                                    lower |-> b.lower,
                                                    upper |-> b.upper]))]]))

\* for i in range(self.forecast_periods): next_date = last_date + (i+1) months
RECURSIVE PredictionLoop(_, _, _, _, _, _)
PredictionLoop(i, periods, last_date, sc, md, st) ==
    IF i > periods THEN st
    ELSE Bind(PredictionStep(st, DateOffset(last_date, i), sc, md),
              LAMBDA st2 : PredictionLoop(i + 1, periods, last_date, sc, md, st2))

\* datetime.datetime (what strptime returns) has no attribute 'quarter'.
DatetimeHasQuarter == FALSE

\* One pass of the loop body of _apply_seasonal_adjustments, monthly part.
AdjustMonthly(f, sp) ==
    LET date == Strptime(f.date)
    IN  IF "monthly" \in DOMAIN sp /\ MonthOf(date.ym) \in DOMAIN sp.monthly.byNumber
        THEN [f EXCEPT !.forecast = (@ * (100 + sp.monthly.byNumber[MonthOf(date.ym)])) \div 100]
        ELSE f

AdjustQuarterly(f, sp) ==
    LET date == Strptime(f.date)
    IN  IF QuarterOf(date.ym) \in DOMAIN sp.quarterly.byNumber
        THEN [f EXCEPT !.forecast = (@ * (100 + sp.quarterly.byNumber[QuarterOf(date.ym)])) \div 100]
        ELSE f

\* _apply_seasonal_adjustments: mutates the forecasts in place (the bands are
\* not passed in).  With a 'quarterly' key the read of date.quarter raises on
\* the first forecast, after its monthly adjustment; the handler logs it and
\* the remaining forecasts stay as they are.
ApplySeasonalAdjustments(forecasts, analysis) ==
    IF "seasonality" \notin DOMAIN analysis \/ Len(forecasts) = 0 THEN forecasts
    ELSE LET sp == analysis.seasonality
         IN  IF "quarterly" \in DOMAIN sp /\ ~DatetimeHasQuarter
             THEN [k \in 1..Len(forecasts) |->
                     IF k = 1 THEN AdjustMonthly(forecasts[k], sp) ELSE forecasts[k]]
             ELSE [k \in 1..Len(forecasts) |->
                     IF "quarterly" \in DOMAIN sp
                     THEN AdjustQuarterly(AdjustMonthly(forecasts[k], sp), sp)
                     ELSE AdjustMonthly(forecasts[k], sp)]

Ratio(n, d) == [num |-> n, den |-> d]

IsFinite(r) == r.den # 0

NaN == Ratio(0, 0)

\* The metrics with the trends decided by >= instead of >.
ForecastMetricsNonStrict(forecasts, confidence_intervals) ==
    LET forecast_values == [k \in 1..Len(forecasts) |-> forecasts[k].forecast]
        n == Len(forecast_values)
        Ranges(l) == [k \in 1..Len(confidence_intervals[l]) |->
                         confidence_intervals[l][k].upper - confidence_intervals[l][k].lower]
    IN  [total_forecast |-> SeqSum(forecast_values),
         average_monthly_forecast |-> Ratio(SeqSum(forecast_values), n),
         forecast_trend |-> IF forecast_values[n] >= forecast_values[1]
                            THEN "increasing" ELSE "decreasing",
         forecast_growth |-> Ratio(forecast_values[n] - forecast_values[1], forecast_values[1]),
         uncertainty_metrics |->
            [l \in Levels |->
               [average_range |-> Ratio(SeqSum(Ranges(l)), Len(Ranges(l))),
                range_trend |-> IF Ranges(l)[Len(Ranges(l))] >= Ranges(l)[1]
                                THEN "increasing" ELSE "decreasing",
                relative_uncertainty |->
                    Ratio(SeqSum(Ranges(l)) * n, Len(Ranges(l)) * SeqSum(forecast_values))]]]

\* The dict built at lines 202-221 of _calculate_forecast_metrics.
ForecastMetrics(forecasts, confidence_intervals) ==
    LET forecast_values == [k \in 1..Len(forecasts) |-> forecasts[k].forecast]
        n == Len(forecast_values)
        Ranges(l) == [k \in 1..Len(confidence_intervals[l]) |->
                         confidence_intervals[l][k].upper - confidence_intervals[l][k].lower]
    IN  [total_forecast |-> SeqSum(forecast_values),
         average_monthly_forecast |-> Ratio(SeqSum(forecast_values), n),
         forecast_trend |-> IF forecast_values[n] > forecast_values[1]
                            THEN "increasing" ELSE "decreasing",
         forecast_growth |-> Ratio(forecast_values[n] - forecast_values[1], forecast_values[1]),
         uncertainty_metrics |->
            [l \in Levels |->
               [average_range |-> Ratio(SeqSum(Ranges(l)), Len(Ranges(l))),
                range_trend |-> IF Ranges(l)[Len(Ranges(l))] > Ranges(l)[1]
                                THEN "increasing" ELSE "decreasing",
                relative_uncertainty |->
                    Ratio(SeqSum(Ranges(l)) * n, Len(Ranges(l)) * SeqSum(forecast_values))]]]

\* _calculate_forecast_metrics on plain Python floats: the division by a zero
\* first forecast raises ZeroDivisionError and the handler returns {}.
CalculateForecastMetricsRaising(forecasts, confidence_intervals) ==
    IF Len(forecasts) = 0 \/ forecasts[1].forecast = 0 THEN EmptyDict
    ELSE ForecastMetrics(forecasts, confidence_intervals)

\* _calculate_forecast_metrics.  The values are numpy floats, so a division
\* by zero yields a non-finite value and no exception; indexing an empty
\* list raises, and the handler returns {}.
CalculateForecastMetrics(forecasts, confidence_intervals) ==
    IF Len(forecasts) = 0 THEN EmptyDict
    ELSE ForecastMetrics(forecasts, confidence_intervals)

\* Lines 111-157 of _generate_predictions: the window is seeded with the last
\* three monthly costs and the loop runs over the periods.
RawPredictions(df, sc, md, periods) ==
    PredictionLoop(1, periods, df[Len(df)].date, sc, md,
        [last_costs |-> <<ValueScale * df[Len(df) - 2].cost, ValueScale * df[Len(df) - 1].cost,
                          ValueScale * df[Len(df)].cost>>,
         dtype |-> df[Len(df)].dtype,
         steps |-> << >>,
         forecasts |-> << >>,
         confidence_intervals |-> [l \in Levels |-> << >>]])

\* _generate_predictions: NotFittedError of the scaler or the model is caught
\* and None is returned.  steps is the record of the loop's periods.
GeneratePredictionsTraced(df, analysis, sc, md, periods) ==
    IF ~sc.fitted \/ ~md.fitted THEN [result |-> None, steps |-> << >>]
    ELSE Bind(RawPredictions(df, sc, md, periods),
              LAMBDA raw :
                 Bind(ApplySeasonalAdjustments(raw.forecasts, analysis),
                      LAMBDA adjusted :
                         [result |->
                             [forecasts |-> adjusted,
                              confidence_intervals |-> raw.confidence_intervals,
                              metrics |-> CalculateForecastMetrics(adjusted,
                                              raw.confidence_intervals)],
                          steps |-> raw.steps]))

\* The value _generate_predictions returns.
GeneratePredictions(df, analysis, sc, md, periods) ==
    GeneratePredictionsTraced(df, analysis, sc, md, periods).result

----------------------------------------------------------------------------
(* Inputs *)

Observation(ym, day, cost, rtype) ==
    [date |-> [ym |-> ym, day |-> day], cost |-> cost, resource_type |-> rtype]

\* Monthly costs of period 2: a in odd months, b in even months.
CostProfiles(L) == {[i \in 1..L |-> IF i % 2 = 1 THEN a ELSE b] : a \in Costs, b \in Costs}

\* One observation per month, for consecutive months from start.
ProfileHistory(start, costs) ==
    [i \in 1..Len(costs) |-> Observation(start + i - 1, 15, costs[i], "VM")]

\* The longest history with every month at cost 0.
FreeHistories == {ProfileHistory(s, [i \in 1..MaxMonths |-> 0]) : s \in StartMonths}

\* The same observations with every cost written as a float.
AsFloat(data) == [i \in 1..Len(data) |-> data[i] @@ [is_float |-> TRUE]]

\* MaxMonths months of costs growing by one a month.
LinearHistories == {ProfileHistory(s, [i \in 1..MaxMonths |-> i]) : s \in StartMonths}

\* The longest histories, with float costs.
FloatHistories ==
    {AsFloat(h) : h \in {ProfileHistory(s, c) : s \in StartMonths, c \in CostProfiles(MaxMonths)}
                        \cup LinearHistories}

Histories ==
    {ProfileHistory(s, c) : s \in StartMonths,
                            c \in UNION {CostProfiles(L) : L \in 0..MaxMonths}}
    \cup FreeHistories \cup LinearHistories \cup FloatHistories

\* A pattern dict that also carries an index of 0.5 for every month and
\* quarter number.
NamedPatternWithIndexes(r) == [byName |-> r, byNumber |-> [m \in 1..12 |-> 50]]

\* A dict of the analysis: its string keys and its integer keys.
NamedPattern(r) == [byName |-> r, byNumber |-> EmptyDict]

NumberedPattern(f) == [byName |-> EmptyDict, byNumber |-> f]

\* The shape analyze_historical_costs produces (analyzer.py 141-145, 157-161).
AnalyzerSeasonality ==
    [monthly |-> NamedPattern([highest_cost_month |-> 1, lowest_cost_month |-> 2,
                               seasonal_variation |-> 0]),
     quarterly |-> NamedPattern([highest_cost_quarter |-> 1, lowest_cost_quarter |-> 2,
                                 quarter_variation |-> 0]),
     weekday |-> NamedPattern(EmptyDict)]

\* Seasonal indexes in percent, keyed by month or quarter number.
MonthlyIndexes == {[m \in 1..12 |-> 50], (4 :> -100) @@ (5 :> 50)}

QuarterlyIndexes == {[q \in 1..4 |-> 10]}

\* The analysis argument of generate_forecast: any dict of the caller.
Analyses ==
    {[total_cost |-> 0], [total_cost |-> 0, seasonality |-> AnalyzerSeasonality]}
    \cup {[total_cost |-> 0, seasonality |-> [monthly |-> NumberedPattern(f)]] :
             f \in MonthlyIndexes}
    \cup {[total_cost |-> 0, seasonality |-> [monthly |-> NumberedPattern(f),
                                              quarterly |-> NumberedPattern(g)]] :
             f \in MonthlyIndexes, g \in QuarterlyIndexes}

----------------------------------------------------------------------------
(* CostForecaster.generate_forecast, step by step.  inv[t] is invocation t   *)
(* of generate_forecast on the one forecaster (scaler, model).              *)

Invocations == {1, 2}

IdleInv ==
    [pc |-> "idle", data |-> << >>, analysis |-> EmptyDict, df |-> << >>,
     X |-> << >>, y |-> << >>, fit_failed |-> FALSE, result |-> None,
     exit |-> "none", raised |-> "none", steps |-> << >>,
     scalerUsed |-> UnfittedScaler, modelUsed |-> UnfittedModel]

Idle == << >>

\* Lines 27-36: _prepare_data, _create_features and the two early returns.
\* No exception reaches the caller on any path (raised stays "none").
Begin(t, H, A) ==
    /\ inv[t].pc = "idle"
    /\ \E data \in H, analysis \in A :
         LET df == PrepareData(data)
             xy == CreateFeatures(df)
             base == [IdleInv EXCEPT !.data = data, !.analysis = analysis, !.df = df,
                                     !.X = xy.X, !.y = xy.y]
         IN  inv' = [inv EXCEPT ![t] =
                        IF Len(df) = 0
                        THEN [base EXCEPT !.pc = "done", !.exit = "empty_data"]
                        ELSE IF Len(xy.X) = 0
                        THEN [base EXCEPT !.pc = "done", !.exit = "no_examples"]
                        ELSE [base EXCEPT !.pc = "train"]]
    /\ UNCHANGED <<scaler, model, source, run, obs, out>>

\* Line 39: self._train_model(X, y)
Train(t) ==
    /\ inv[t].pc = "train"
    /\ LET tr == TrainModel(scaler, model, inv[t].X, inv[t].y)
       IN  /\ scaler' = tr.scaler
           /\ model' = tr.model
           /\ inv' = [inv EXCEPT ![t].pc = "predict", ![t].fit_failed = tr.fit_failed]
    /\ UNCHANGED <<source, run, obs, out>>

\* Lines 42-44: self._generate_predictions(df, analysis) and the return.
\* scalerUsed / modelUsed are the object states read at lines 131 and 136.
Predictions(t) ==
    /\ inv[t].pc = "predict"
    /\ \E g \in {GeneratePredictionsTraced(inv[t].df, inv[t].analysis, scaler, model,
                                            ForecastPeriods)} :
          inv' = [inv EXCEPT ![t].pc = "done",
                             ![t].exit = "forecasts",
                             ![t].scalerUsed = scaler,
                             ![t].modelUsed = model,
                             ![t].steps = g.steps,
                             ![t].result = g.result]
    /\ UNCHANGED <<scaler, model, source, run, obs, out>>

\* The caller is done with the returned value.
Return(t) ==
    /\ inv[t].pc = "done"
    /\ inv' = [inv EXCEPT ![t] = IdleInv]
    /\ UNCHANGED <<scaler, model, source, run, obs, out>>

\* CostForecaster.__init__: a new forecaster replaces the old one.
NewForecaster ==
    /\ \A t \in Invocations : inv[t].pc = "idle"
    /\ scaler # UnfittedScaler \/ model # UnfittedModel
    /\ scaler' = UnfittedScaler
    /\ model' = UnfittedModel
    /\ UNCHANGED <<inv, source, run, obs, out>>

----------------------------------------------------------------------------
(* Spec: one forecaster, one call of generate_forecast at a time *)

Init ==
    /\ scaler = UnfittedScaler
    /\ model = UnfittedModel
    /\ inv = [t \in Invocations |-> IdleInv]
    /\ source = Idle
    /\ run = Idle
    /\ obs = Idle
    /\ out = Idle

Next ==
    \/ Begin(1, Histories, Analyses)
    \/ Train(1)
    \/ Predictions(1)
    \/ Return(1)
    \/ NewForecaster

Spec == Init /\ [][Next]_vars

Done(t) == inv[t].pc = "done"

Returned(t) == Done(t) /\ ~IsNone(inv[t].result)

----------------------------------------------------------------------------
(* Properties of a returned forecast (Spec) *)

LastHistoricalMonth(t) == MaxOf(ObsMonths(inv[t].data))

ForecastMonth(t, k) == Strptime(inv[t].result.forecasts[k].date).ym

\* C1: a returned forecast has exactly forecast_periods entries, and entry k
\* is dated in the k-th calendar month after the last historical month, so the
\* periods are strictly increasing and contiguous.
C1_HorizonContiguous ==
    \A t \in Invocations :
        Returned(t) =>
            /\ Len(inv[t].result.forecasts) = ForecastPeriods
            /\ \A k \in 1..Len(inv[t].result.forecasts) :
                   ForecastMonth(t, k) = LastHistoricalMonth(t) + k
            /\ \A k \in 1..(Len(inv[t].result.forecasts) - 1) :
                   ForecastMonth(t, k + 1) = ForecastMonth(t, k) + 1

\* A forecast is returned whose periods run over the end of a year and whose
\* last historical month ends on a day that later months do not have.
C1_Witness ==
    /\ Returned(1)
    /\ inv[1].df[Len(inv[1].df)].date.day = 31
    /\ \E k \in 1..(Len(inv[1].result.forecasts) - 1) :
           /\ inv[1].result.forecasts[k].date[2] = 12
           /\ inv[1].result.forecasts[k + 1].date[2] = 1
    /\ \E k \in 1..Len(inv[1].result.forecasts) : inv[1].result.forecasts[k].date[3] < 31

\* C2: in a returned forecast, for every period and every level,
\* lower <= point estimate <= upper, the point estimate being the value in
\* 'forecasts' (after the seasonal adjustment).
C2_PointWithinBands ==
    \A t \in Invocations :
        Returned(t) =>
            \A l \in Levels : \A k \in 1..Len(inv[t].result.forecasts) :
                /\ inv[t].result.confidence_intervals[l][k].lower
                       <= inv[t].result.forecasts[k].forecast
                /\ inv[t].result.forecasts[k].forecast
                       <= inv[t].result.confidence_intervals[l][k].upper

\* C3: at every period the band of a higher level contains the band of a
\* lower level (lower bound not above, upper bound not below), and every band
\* has lower <= upper.
C3_BandsNested ==
    \A t \in Invocations :
        Returned(t) =>
            \A k \in 1..Len(inv[t].result.forecasts) :
                /\ \A l \in Levels :
                       inv[t].result.confidence_intervals[l][k].lower
                           <= inv[t].result.confidence_intervals[l][k].upper
                /\ \A l1 \in Levels, l2 \in Levels :
                       l1 > l2 =>
                           /\ inv[t].result.confidence_intervals[l1][k].lower
                                  <= inv[t].result.confidence_intervals[l2][k].lower
                           /\ inv[t].result.confidence_intervals[l2][k].upper
                                  <= inv[t].result.confidence_intervals[l1][k].upper

\* A forecast with a band entry for every period at each of the three levels
\* and a positive first estimate.
C3_Witness ==
    /\ Returned(1)
    /\ Cardinality(Levels) = 3
    /\ \A l \in Levels : Len(inv[1].result.confidence_intervals[l]) = ForecastPeriods
    /\ inv[1].result.confidence_intervals[95][1].upper > 0

MetricsKeys ==
    {"total_forecast", "average_monthly_forecast", "forecast_trend",
     "forecast_growth", "uncertainty_metrics"}

UncertaintyKeys == {"average_range", "range_trend", "relative_uncertainty"}

\* C8: a returned forecast is complete: a forecast for every horizon period,
\* a band entry for every period at every level, and a metrics record with
\* all its fields and an uncertainty entry per level; a call that could not
\* predict returns None.
C8_NoPartialResult ==
    \A t \in Invocations :
        /\ Returned(t) =>
               /\ Len(inv[t].result.forecasts) = ForecastPeriods
               /\ DOMAIN inv[t].result.confidence_intervals = Levels
               /\ \A l \in Levels :
                      Len(inv[t].result.confidence_intervals[l]) = ForecastPeriods
               /\ DOMAIN inv[t].result.metrics = MetricsKeys
               /\ DOMAIN inv[t].result.metrics.uncertainty_metrics = Levels
               /\ \A l \in Levels :
                      DOMAIN inv[t].result.metrics.uncertainty_metrics[l] = UncertaintyKeys
        /\ (Done(t) /\ (~inv[t].modelUsed.fitted \/ ~inv[t].scalerUsed.fitted)) =>
               IsNone(inv[t].result)

\* A forecast is returned whose first estimate is 0, the case in which the
\* growth quotient has a zero denominator.
C8_Witness ==
    /\ Returned(1)
    /\ inv[1].result.forecasts[1].forecast = 0
    /\ inv[1].result.metrics.forecast_growth.den = 0

\* C15: in returned metrics forecast_growth is 0 when the first forecast is
\* 0, relative_uncertainty is 0 at every level when the average monthly
\* forecast is 0, and all the metrics are present.
C15_ZeroDenominatorMetrics ==
    \A t \in Invocations :
        Returned(t) =>
            /\ inv[t].result.forecasts[1].forecast = 0 =>
                   /\ IsFinite(inv[t].result.metrics.forecast_growth)
                   /\ inv[t].result.metrics.forecast_growth.num = 0
            /\ inv[t].result.metrics.total_forecast = 0 =>
                   \A l \in Levels :
                       /\ IsFinite(inv[t].result.metrics.uncertainty_metrics[l].relative_uncertainty)
                       /\ inv[t].result.metrics.uncertainty_metrics[l].relative_uncertainty.num = 0
            /\ DOMAIN inv[t].result.metrics = MetricsKeys
            /\ DOMAIN inv[t].result.metrics.uncertainty_metrics = Levels

\* C16: a call whose training failed ends with a ModelFitError raised to the
\* caller and returns no forecast.
C16_RaisesModelFitError ==
    \A t \in Invocations :
        (Done(t) /\ inv[t].fit_failed) =>
            /\ inv[t].raised = "ModelFitError"
            /\ IsNone(inv[t].result)

\* C19: for a monthly series of length L >= 4 the call holds exactly L - 3
\* training examples, in the order of the periods; example i has the costs of
\* periods i, i+1, i+2 followed by the calendar month and quarter of period
\* i, and its target is the cost of period i+3.
C19_FeatureExamples ==
    \A t \in Invocations :
        (inv[t].pc # "idle" /\ Len(inv[t].df) >= 4) =>
            LET df == inv[t].df
                L == Len(df)
            IN  /\ Len(inv[t].X) = L - 3
                /\ Len(inv[t].y) = L - 3
                /\ \A i \in 1..(L - 3) :
                       /\ inv[t].X[i] = <<df[i].cost, df[i + 1].cost, df[i + 2].cost,
                                          MonthOf(df[i].date.ym), QuarterOf(df[i].date.ym)>>
                       /\ inv[t].y[i] = df[i + 3].cost

\* Six months from November: three examples, the third of January (first
\* quarter) after two of the fourth quarter, on costs that differ.
C19_Witness ==
    /\ inv[1].pc = "train"
    /\ Len(inv[1].df) = 6
    /\ Len(inv[1].X) = 3
    /\ inv[1].X[1][4] = 11 /\ inv[1].X[1][5] = 4
    /\ inv[1].X[3][4] = 1 /\ inv[1].X[3][5] = 1
    /\ inv[1].X[1][1] # inv[1].X[1][2]
    /\ inv[1].y[1] = inv[1].df[4].cost

\* C20: the window of the prediction loop has three slots and starts as the
\* last three monthly costs; after each period it is the previous window
\* without its oldest slot, followed by the unrounded mean prediction of that
\* period; the feature vector of a period is the window before it with the
\* calendar month and quarter of that period.  Values in hundredths.
C20_RollingWindow ==
    \A t \in Invocations :
        Returned(t) =>
            LET df == inv[t].df
                L == Len(df)
                steps == inv[t].steps
            IN  /\ Len(steps) = ForecastPeriods
                /\ steps[1].window = <<ValueScale * df[L - 2].cost, ValueScale * df[L - 1].cost,
                                       ValueScale * df[L].cost>>
                /\ \A p \in 1..ForecastPeriods :
                       /\ Len(steps[p].window) = 3
                       /\ steps[p].month = MonthOf(LastHistoricalMonth(t) + p)
                       /\ steps[p].quarter = QuarterOf(LastHistoricalMonth(t) + p)
                /\ \A p \in 2..ForecastPeriods :
                       steps[p].window = <<steps[p - 1].window[2], steps[p - 1].window[3],
                                           steps[p - 1].mean_pred>>

\* v (in hundredths) times (1 + index), the index in percent, when the pattern
\* carries an index for key; v otherwise.
TimesIndex(v, analysis, name, key) ==
    IF /\ "seasonality" \in DOMAIN analysis
       /\ name \in DOMAIN analysis.seasonality
       /\ key \in DOMAIN analysis.seasonality[name].byNumber
    THEN (v * (100 + analysis.seasonality[name].byNumber[key])) \div 100
    ELSE v

\* The monthly factor of the period, then its quarterly factor.
SeasonallyAdjusted(v, analysis, step) ==
    TimesIndex(TimesIndex(v, analysis, "monthly", step.month), analysis, "quarterly",
               step.quarter)

\* C21: in a returned forecast every period's point estimate is the mean
\* prediction of the period times (1 + monthly index of its month) times
\* (1 + quarterly index of its quarter), each factor only when the analysis
\* carries that index, and the lower and upper bounds of the period at every
\* level are the percentile bounds times the same factors.
C21_SeasonalAdjustment ==
    \A t \in Invocations :
        Returned(t) =>
            \A p \in 1..ForecastPeriods :
                LET step == inv[t].steps[p]
                    a == inv[t].analysis
                IN  /\ inv[t].result.forecasts[p].forecast
                           = SeasonallyAdjusted(step.mean_pred, a, step)
                    /\ \A l \in Levels :
                           /\ inv[t].result.confidence_intervals[l][p].lower
                                  = SeasonallyAdjusted(step.intervals[l].lower, a, step)
                           /\ inv[t].result.confidence_intervals[l][p].upper
                                  = SeasonallyAdjusted(step.intervals[l].upper, a, step)

\* The ratio r is the mean of n values of sum total.
IsMean(r, total, n) == r.den # 0 /\ r.num * n = total * r.den

\* C22: the metrics of a returned forecast are those of its returned
\* (adjusted) forecasts and bands: total_forecast is the sum of the point
\* estimates and average_monthly_forecast their mean; forecast_trend is
\* 'increasing' when the last estimate exceeds the first and 'decreasing'
\* otherwise; per level average_range is the mean of upper - lower and
\* range_trend is 'increasing' exactly when the last range exceeds the first.
C22_ForecastMetrics ==
    \A t \in Invocations :
        Returned(t) =>
            LET r == inv[t].result
                n == Len(r.forecasts)
                total == SeqSum([k \in 1..n |-> r.forecasts[k].forecast])
                Width(l, k) == r.confidence_intervals[l][k].upper
                                   - r.confidence_intervals[l][k].lower
            IN  /\ r.metrics.total_forecast = total
                /\ IsMean(r.metrics.average_monthly_forecast, total, n)
                /\ r.metrics.forecast_trend =
                       IF r.forecasts[n].forecast > r.forecasts[1].forecast
                       THEN "increasing" ELSE "decreasing"
                /\ \A l \in Levels :
                       /\ IsMean(r.metrics.uncertainty_metrics[l].average_range,
                                 SeqSum([k \in 1..n |-> Width(l, k)]), n)
                       /\ r.metrics.uncertainty_metrics[l].range_trend =
                              IF Width(l, n) > Width(l, 1) THEN "increasing" ELSE "decreasing"

\* A returned forecast whose first estimate was changed by the seasonal
\* adjustment and whose last estimate exceeds the first.
C22_Witness ==
    /\ Returned(1)
    /\ inv[1].result.forecasts[1].forecast # inv[1].steps[1].mean_pred
    /\ inv[1].result.forecasts[ForecastPeriods].forecast > inv[1].result.forecasts[1].forecast
    /\ inv[1].result.metrics.forecast_trend = "increasing"
    /\ inv[1].result.metrics.total_forecast > 0

\* What _train_model leaves in the forecaster when invocation t trains alone.
OwnTraining(t) == TrainModel(UnfittedScaler, UnfittedModel, inv[t].X, inv[t].y)

\* C28: a call whose training failed returns None, and every returned
\* forecast was predicted with a scaler and a model fitted in that call from
\* that call's own training examples.
C28_FittedInSameCall ==
    \A t \in Invocations :
        Done(t) =>
            /\ inv[t].fit_failed => IsNone(inv[t].result)
            /\ Returned(t) =>
                   /\ ~inv[t].fit_failed
                   /\ inv[t].scalerUsed = FitScaler(inv[t].X)
                   /\ inv[t].modelUsed = OwnTraining(t).model

\* C26: at every forecast period the 100 predictions take the values that
\* the estimators of the forest predict for the period's feature vector (one
\* prediction per estimator), the point estimate before adjustment is their
\* mean, and each band runs from the lower to the upper percentile of those
\* values, so that it has a width whenever the estimators disagree.
C26_SamplesFromEstimators ==
    \A t \in Invocations :
        Returned(t) =>
            \A p \in 1..ForecastPeriods :
                /\ inv[t].steps[p].samples = inv[t].steps[p].estimators
                /\ Cardinality(inv[t].steps[p].estimators) > 1 =>
                       inv[t].steps[p].intervals[95].lower
                           < inv[t].steps[p].intervals[95].upper

\* generate_forecast(data, analysis) on a forecaster just constructed.
FreshForecast(data, analysis) ==
    LET df == PrepareData(data)
        xy == CreateFeatures(df)
        tr == TrainModel(UnfittedScaler, UnfittedModel, xy.X, xy.y)
    IN  IF Len(df) = 0 \/ Len(xy.X) = 0 THEN None
        ELSE GeneratePredictions(df, analysis, tr.scaler, tr.model, ForecastPeriods)

\* C10: a call returns what the same call returns on a fresh forecaster,
\* whatever calls were made before it.
C10_Deterministic ==
    Done(1) => inv[1].result = FreshForecast(inv[1].data, inv[1].analysis)

----------------------------------------------------------------------------
(* SpecConc: two invocations of generate_forecast on the forecaster that a  *)
(* CostForecastOptimizer creates once (optimizer.py line 13), interleaved    *)
(* between _train_model and _generate_predictions.                          *)

\* Histories long enough for the train/test split to leave a training row.
ConcHistories == {h \in Histories : Len(h) >= 5}

ConcAnalyses == {[total_cost |-> 0]}

NextConc ==
    \E t \in Invocations :
        \/ Begin(t, ConcHistories, ConcAnalyses)
        \/ Train(t)
        \/ Predictions(t)

SpecConc == Init /\ [][NextConc]_vars

\* C9: the predictions of every invocation are made with the scaler and the
\* model fitted from that invocation's own training examples.
C9_OwnModelState ==
    \A t \in Invocations :
        Returned(t) =>
            /\ inv[t].scalerUsed = OwnTraining(t).scaler
            /\ inv[t].modelUsed = OwnTraining(t).model

----------------------------------------------------------------------------
(* CostForecastAnalyzer: cost drivers, and the analysis dict *)

\* groupby('resource_type') lists the types in sorted order.
TypeOrder == <<"Compute", "Database", "Network", "Storage", "VM", "Web", "Zone">>

TypeIndex(rtype) == CHOOSE i \in DOMAIN TypeOrder : TypeOrder[i] = rtype

ObsTypes(data) == {data[i].resource_type : i \in DOMAIN data}

TypeCost(data, rtype) ==
    SeqSum([i \in 1..Len(data) |-> IF data[i].resource_type = rtype THEN data[i].cost ELSE 0])

TotalCost(data) == SeqSum([i \in 1..Len(data) |-> data[i].cost])

\* round(n / d) to the nearest integer, ties to the even one (numpy round).
RoundHalfEven(n, d) ==
    LET q == n \div d
        r == n % d
    IN  IF 2 * r > d THEN q + 1
        ELSE IF 2 * r < d THEN q
        ELSE IF q % 2 = 0 THEN q ELSE q + 1

\* (resource_costs / total_cost * 100).round(2), in hundredths of a percent.
ResourcePercentages(data) ==
    [rtype \in ObsTypes(data) |-> RoundHalfEven(10000 * TypeCost(data, rtype), TotalCost(data))]

\* nlargest(5): the five largest shares, the earlier type first on a tie.
TopDrivers(percentages) ==
    LET Before(u, v) == percentages[u] > percentages[v]
                        \/ (percentages[u] = percentages[v] /\ TypeIndex(u) < TypeIndex(v))
        Rank(v) == Cardinality({u \in DOMAIN percentages : Before(u, v)})
    IN  [v \in {w \in DOMAIN percentages : Rank(w) < 5} |-> percentages[v]]

\* _calculate_cost_concentration: round(((percentages / 100) ** 2).sum(), 2),
\* in hundredths.
CalculateCostConcentration(percentages) ==
    LET types == DOMAIN percentages
        squares == [i \in 1..Len(TypeOrder) |->
                       IF TypeOrder[i] \in types
                       THEN percentages[TypeOrder[i]] * percentages[TypeOrder[i]] ELSE 0]
    IN  RoundHalfEven(SeqSum(squares), 1000000)

\* _analyze_cost_drivers with the concentration taken over top_drivers.
AnalyzeCostDriversTopOnly(data) ==
    IF TotalCost(data) = 0
    THEN [top_resources |-> [rtype \in ObsTypes(data) |-> 0], finite |-> FALSE,
          cost_concentration |-> 0]
    ELSE [top_resources |-> TopDrivers(ResourcePercentages(data)), finite |-> TRUE,
          cost_concentration |-> CalculateCostConcentration(TopDrivers(ResourcePercentages(data)))]

\* _analyze_cost_drivers.  With a total of 0 the shares are 0/0: the values
\* are nan (finite = FALSE) and nothing is raised.
AnalyzeCostDrivers(data) ==
    IF TotalCost(data) = 0
    THEN [top_resources |-> [rtype \in ObsTypes(data) |-> 0], finite |-> FALSE,
          cost_concentration |-> 0]
    ELSE [top_resources |-> TopDrivers(ResourcePercentages(data)), finite |-> TRUE,
          cost_concentration |-> CalculateCostConcentration(ResourcePercentages(data))]

----------------------------------------------------------------------------
(* CostForecastAnalyzer: growth, seasonality and trend statistics.  A        *)
(* statistic is a quotient [num, den]; den = 0 is the non-finite value the   *)
(* division produces: inf for num > 0, -inf for num < 0, nan for num = 0.    *)
(* A quotient of a standard deviation by a mean is kept as its square.       *)

\* r > p / q for a float r (q > 0): nan compares False, inf compares True.
GreaterThan(r, p, q) ==
    IF r.den = 0 THEN r.num > 0
    ELSE IF r.den > 0 THEN r.num * q > p * r.den
    ELSE r.num * q < p * r.den

AbsRatio(r) == Ratio(Abs(r.num), Abs(r.den))

\* The members of a set of integers in increasing order.
SortedSeq(S) ==
    [k \in 1..Cardinality(S) |-> CHOOSE x \in S : Cardinality({z \in S : z < x}) = k - 1]

RECURSIVE ProdOver(_, _)
ProdOver(S, f) ==
    IF S = {} THEN 1
    ELSE LET x == CHOOSE z \in S : TRUE
         IN  f[x] * ProdOver(S \ {x}, f)

\* df.resample('M')['cost'].sum(): the monthly costs, first to last month.
MonthlySeries(data) == PrepareData(data)

SeriesCostsOf(monthly) == [k \in 1..Len(monthly) |-> monthly[k].cost]

\* n * sum(x^2) - sum(x)^2 = n (n - 1) * (sample variance of x).
VarNum(x) == Len(x) * SeqSum([i \in 1..Len(x) |-> x[i] * x[i]]) - SeqSum(x) * SeqSum(x)

\* (x.std() / x.mean()) ** 2 = n * VarNum / ((n - 1) * sum^2); std() of a
\* single value is nan, and a zero mean divides by zero.
VariationSquared(x) == Ratio(Len(x) * VarNum(x), (Len(x) - 1) * SeqSum(x) * SeqSum(x))

\* groupby(keys).mean() of vals, every mean multiplied by the product of the
\* group sizes; the groups are listed by increasing key.
ScaledGroupMeans(keys, vals) ==
    LET gs == Range(keys)
        cnt == [g \in gs |-> Cardinality({i \in DOMAIN keys : keys[i] = g})]
        sm == [g \in gs |-> SeqSum([i \in 1..Len(vals) |-> IF keys[i] = g THEN vals[i] ELSE 0])]
        M == ProdOver(gs, cnt)
        order == SortedSeq(gs)
    IN  [key |-> order,
         mean |-> [k \in 1..Len(order) |-> sm[order[k]] * (M \div cnt[order[k]])],
         scale |-> M]

\* idxmax / idxmin: the key of the first largest / smallest group mean.
IdxMax(g) ==
    g.key[CHOOSE k \in 1..Len(g.key) :
              /\ \A j \in 1..Len(g.key) : g.mean[j] <= g.mean[k]
              /\ \A j \in 1..(k - 1) : g.mean[j] < g.mean[k]]

IdxMin(g) ==
    g.key[CHOOSE k \in 1..Len(g.key) :
              /\ \A j \in 1..Len(g.key) : g.mean[j] >= g.mean[k]
              /\ \A j \in 1..(k - 1) : g.mean[j] > g.mean[k]]

\* _calculate_monthly_seasonality
CalculateMonthlySeasonality(monthly) ==
    Bind(ScaledGroupMeans([k \in 1..Len(monthly) |-> MonthOf(monthly[k].date.ym)],
                          SeriesCostsOf(monthly)),
         LAMBDA g : [highest_cost_month |-> IdxMax(g),
                     lowest_cost_month |-> IdxMin(g),
                     seasonal_variation |-> VariationSquared(g.mean)])

\* monthly_data.resample('Q').sum(): one sum per calendar quarter of the span.
QuarterlySums(monthly) ==
    LET lo == monthly[1].date.ym \div 3
        hi == monthly[Len(monthly)].date.ym \div 3
    IN  [k \in 1..(hi - lo + 1) |->
            [quarter |-> ((lo + k - 1) % 4) + 1,
             cost |-> SeqSum([i \in 1..Len(monthly) |->
                                 IF monthly[i].date.ym \div 3 = lo + k - 1
                                 THEN monthly[i].cost ELSE 0])]]

\* _calculate_quarterly_seasonality
CalculateQuarterlySeasonality(monthly) ==
    Bind(QuarterlySums(monthly),
         LAMBDA q :
            Bind(ScaledGroupMeans([k \in 1..Len(q) |-> q[k].quarter],
                                  [k \in 1..Len(q) |-> q[k].cost]),
                 LAMBDA g : [highest_cost_quarter |-> IdxMax(g),
                             lowest_cost_quarter |-> IdxMin(g),
                             quarter_variation |-> VariationSquared(g.mean)]))

\* index.dayofweek: Monday = 0 (0001-01-01 is a Monday).
DayOfYear(ts) ==
    SeqSum([m \in 1..(MonthOf(ts.ym) - 1) |-> DaysInMonth(YearOf(ts.ym) * 12 + m - 1)]) + ts.day

DayOfWeek(ts) ==
    LET y == YearOf(ts.ym) - 1
    IN  (365 * y + (y \div 4) - (y \div 100) + (y \div 400) + DayOfYear(ts) - 1) % 7

\* The mean of the group means at positions lo..hi (a positional slice).
SliceMean(g, lo, hi) ==
    LET last == IF hi < Len(g.mean) THEN hi ELSE Len(g.mean)
        n == IF last >= lo THEN last - lo + 1 ELSE 0
    IN  Ratio(SumRange(g.mean, lo, last), n * g.scale)

\* _calculate_weekday_seasonality
CalculateWeekdaySeasonality(data) ==
    Bind(ScaledGroupMeans([i \in 1..Len(data) |-> DayOfWeek(data[i].date)],
                          [i \in 1..Len(data) |-> data[i].cost]),
         LAMBDA g : [weekday_avg |-> SliceMean(g, 1, 5),
                     weekend_avg |-> SliceMean(g, 6, 7),
                     day_variation |-> VariationSquared(g.mean)])

\* _analyze_seasonality: the three dicts, keyed by names.
AnalyzeSeasonality(data) ==
    Bind(MonthlySeries(data),
         LAMBDA monthly : [monthly |-> NamedPattern(CalculateMonthlySeasonality(monthly)),
                           quarterly |-> NamedPattern(CalculateQuarterlySeasonality(monthly)),
                           weekday |-> NamedPattern(CalculateWeekdaySeasonality(data))])

\* monthly.pct_change(): nan first, then (x[k] - x[k-1]) / x[k-1].
GrowthRates(x) ==
    [k \in 1..Len(x) |-> IF k = 1 THEN NaN ELSE Ratio(x[k] - x[k - 1], x[k - 1])]

IsNaN(r) == r.den = 0 /\ r.num = 0

\* growth_rates.mean(): the mean of the entries that are not nan; an infinite
\* entry makes it infinite, inf and -inf together or no entry make it nan.
MeanOfRates(g) ==
    LET idx == {k \in DOMAIN g : ~IsNaN(g[k])}
        P == ProdOver({k \in idx : g[k].den # 0}, [k \in DOMAIN g |-> g[k].den])
        posInf == \E k \in idx : g[k].den = 0 /\ g[k].num > 0
        negInf == \E k \in idx : g[k].den = 0 /\ g[k].num < 0
    IN  IF idx = {} \/ (posInf /\ negInf) THEN NaN
        ELSE IF posInf THEN Ratio(1, 0)
        ELSE IF negInf THEN Ratio(-1, 0)
        ELSE Ratio(SeqSum([k \in 1..Len(g) |->
                              IF k \in idx THEN g[k].num * (P \div g[k].den) ELSE 0]),
                   Cardinality(idx) * P)

\* _calculate_mom_growth.  No division raises, so the defaults of the handler
\* (0, 'stable') are never returned for a numeric series.
CalculateMomGrowth(monthly) ==
    Bind(GrowthRates(SeriesCostsOf(monthly)),
         LAMBDA g :
            Bind(MeanOfRates(g),
                 LAMBDA mean :
                    [average_growth |-> mean,
                     last_month_growth |-> IF Len(g) > 0 THEN g[Len(g)] ELSE Ratio(0, 1),
                     growth_trend |-> IF GreaterThan(mean, 0, 1)
                                      THEN "increasing" ELSE "decreasing"]))

\* np.polyfit(arange(n), data, 1)[0], the least-squares slope, for n >= 2:
\* (n sum(i x) - sum(i) sum(x)) / (n sum(i^2) - sum(i)^2), i = 0..n-1.
SlopeOf(x) ==
    LET n == Len(x)
        si == SeqSum([i \in 1..n |-> i - 1])
        sii == SeqSum([i \in 1..n |-> (i - 1) * (i - 1)])
        six == SeqSum([i \in 1..n |-> (i - 1) * x[i]])
    IN  Ratio(n * six - si * SeqSum(x), n * sii - si * si)

\* _calculate_linear_trend: trend_strength = abs(slope) / data.mean().
CalculateLinearTrend(x) ==
    Bind(SlopeOf(x),
         LAMBDA slope :
            [slope |-> slope,
             trend_type |-> IF GreaterThan(slope, 0, 1) THEN "increasing" ELSE "decreasing",
             trend_strength |-> Ratio(Len(x) * Abs(slope.num), slope.den * SeqSum(x))])

\* data.iloc[i] is further than twice the sample standard deviation of the
\* three months w from their mean: |3 v - sum(w)| > 6 std(w), squared, with
\* 6 * (sample variance of w) = VarNum(w).
Deviates(v, w) == (3 * v - SeqSum(w)) * (3 * v - SeqSum(w)) > 6 * VarNum(w)

\* _detect_trend_changes comparing month i with the rolling window that ends
\* at month i itself.
DetectTrendChangesOwnWindow(monthly) ==
    LET x == SeriesCostsOf(monthly)
        significant_changes ==
            {i \in 4..Len(x) : Deviates(x[i], <<x[i - 2], x[i - 1], x[i]>>)}
    IN  [change_points |-> Cardinality(significant_changes),
         last_change |-> IF significant_changes = {} THEN None
                         ELSE monthly[MaxOf(significant_changes)].date,
         stability |-> IF Cardinality(significant_changes) <= 2 THEN "stable" ELSE "volatile"]

\* _detect_trend_changes: month i (from the fourth on) against
\* rolling_mean.iloc[i-1] and rolling_std.iloc[i-1], the window of the three
\* months before it.
DetectTrendChanges(monthly) ==
    LET x == SeriesCostsOf(monthly)
        significant_changes ==
            {i \in 4..Len(x) : Deviates(x[i], <<x[i - 3], x[i - 2], x[i - 1]>>)}
    IN  [change_points |-> Cardinality(significant_changes),
         last_change |-> IF significant_changes = {} THEN None
                         ELSE monthly[MaxOf(significant_changes)].date,
         stability |-> IF Cardinality(significant_changes) <= 2 THEN "stable" ELSE "volatile"]

\* _analyze_trends
AnalyzeTrends(monthly) ==
    [linear_trend |-> CalculateLinearTrend(SeriesCostsOf(monthly)),
     volatility |-> VariationSquared(SeriesCostsOf(monthly)),
     trend_changes |-> DetectTrendChanges(monthly)]

\* _get_historical_costs: the usage records of the lookback window, or [] when
\* the request raises.
GetHistoricalCosts(src) == IF src.fails THEN << >> ELSE src.items

\* df['cost'], one entry per observation.
ObsCosts(data) == [i \in 1..Len(data) |-> data[i].cost]

\* analyze_historical_costs on the fetched data: None without data.  The
\* standard deviation cost_std_dev is kept as its square.
AnalyzeHistoricalCosts(data) ==
    IF Len(data) = 0 THEN None
    ELSE [total_cost |-> TotalCost(data),
          average_monthly_cost |-> Ratio(TotalCost(data), Len(data)),
          cost_std_dev |-> Ratio(VarNum(ObsCosts(data)), Len(data) * (Len(data) - 1)),
          min_monthly_cost |-> MinOf(Range(ObsCosts(data))),
          max_monthly_cost |-> MaxOf(Range(ObsCosts(data))),
          month_over_month_growth |-> CalculateMomGrowth(MonthlySeries(data)),
          seasonality |-> AnalyzeSeasonality(data),
          cost_drivers |-> AnalyzeCostDrivers(data),
          trends |-> AnalyzeTrends(MonthlySeries(data))]

----------------------------------------------------------------------------
(* CostForecastOptimizer: insights and recommendations *)

TrendIsIncreasing(analysis) == analysis.trends.linear_trend.trend_type = "increasing"

HasMonthlyPattern(analysis) ==
    \/ DOMAIN analysis.seasonality.monthly.byName # {}
    \/ DOMAIN analysis.seasonality.monthly.byNumber # {}

\* analysis['cost_drivers']['cost_concentration'] > 0.5 (nan compares False)
HighConcentration(analysis) ==
    analysis.cost_drivers.finite /\ analysis.cost_drivers.cost_concentration > 50

\* any(metrics['relative_uncertainty'] > 0.2 for metrics in ...values())
HighUncertainty(forecasts) ==
    \E l \in DOMAIN forecasts.metrics.uncertainty_metrics :
        GreaterThan(forecasts.metrics.uncertainty_metrics[l].relative_uncertainty, 1, 5)

\* A missing key raises KeyError inside the try: the handler returns [].
FindingsRaise(analysis, forecasts) ==
    \/ "linear_trend" \notin DOMAIN analysis.trends
    \/ "trend_type" \notin DOMAIN analysis.trends.linear_trend
    \/ "uncertainty_metrics" \notin DOMAIN forecasts.metrics

\* _generate_insights: five blocks, each appending at most one insight.
GenerateInsights(analysis, forecasts) ==
    IF FindingsRaise(analysis, forecasts) THEN << >>
    ELSE (IF TrendIsIncreasing(analysis)
          THEN <<[type |-> "trend", category |-> "cost_trend",
                  severity |-> IF GreaterThan(analysis.trends.linear_trend.trend_strength, 1, 10)
                               THEN "high" ELSE "medium"]>>
          ELSE << >>)
         \o (IF HasMonthlyPattern(analysis)
             THEN <<[type |-> "pattern", category |-> "seasonality", severity |-> "medium"]>>
             ELSE << >>)
         \o (IF HighConcentration(analysis)
             THEN <<[type |-> "concentration", category |-> "cost_distribution",
                     severity |-> "high"]>>
             ELSE << >>)
         \o (IF HighUncertainty(forecasts)
             THEN <<[type |-> "uncertainty", category |-> "forecast_quality",
                     severity |-> "medium"]>>
             ELSE << >>)
         \o (IF GreaterThan(AbsRatio(forecasts.metrics.forecast_growth), 1, 5)
             THEN <<[type |-> "growth", category |-> "future_trend", severity |-> "high",
                     description |-> IF GreaterThan(forecasts.metrics.forecast_growth, 0, 1)
                                     THEN "increase" ELSE "decrease"]>>
             ELSE << >>)

\* _summarize_uncertainty: 'high' above 0.2 at some level, else 'medium' above
\* 0.1 at some level, else 'low'.
SummarizeUncertainty(uncertainty_metrics) ==
    [overall_assessment |->
        IF \E l \in DOMAIN uncertainty_metrics :
               GreaterThan(uncertainty_metrics[l].relative_uncertainty, 1, 5)
        THEN "high"
        ELSE IF \E l \in DOMAIN uncertainty_metrics :
                    GreaterThan(uncertainty_metrics[l].relative_uncertainty, 1, 10)
             THEN "medium" ELSE "low",
     confidence_levels |->
        [l \in DOMAIN uncertainty_metrics |-> uncertainty_metrics[l].relative_uncertainty]]

\* _generate_recommendations with the uncertainty block before the growth block.
GenerateRecommendationsAsInsights(analysis, forecasts) ==
    IF FindingsRaise(analysis, forecasts) THEN << >>
    ELSE (IF TrendIsIncreasing(analysis)
          THEN <<[type |-> "cost_optimization", priority |-> "high"]>> ELSE << >>)
         \o (IF HasMonthlyPattern(analysis)
             THEN <<[type |-> "resource_management", priority |-> "medium"]>> ELSE << >>)
         \o (IF HighConcentration(analysis)
             THEN <<[type |-> "cost_distribution", priority |-> "high"]>> ELSE << >>)
         \o (IF HighUncertainty(forecasts)
             THEN <<[type |-> "risk_management", priority |-> "medium"]>> ELSE << >>)
         \o (IF GreaterThan(forecasts.metrics.forecast_growth, 1, 5)
             THEN <<[type |-> "future_planning", priority |-> "high"]>> ELSE << >>)

\* _generate_recommendations: five blocks, each appending at most one entry;
\* the growth block (lines 182-196) comes before the uncertainty block.
GenerateRecommendations(analysis, forecasts) ==
    IF FindingsRaise(analysis, forecasts) THEN << >>
    ELSE (IF TrendIsIncreasing(analysis)
          THEN <<[type |-> "cost_optimization", priority |-> "high"]>> ELSE << >>)
         \o (IF HasMonthlyPattern(analysis)
             THEN <<[type |-> "resource_management", priority |-> "medium"]>> ELSE << >>)
         \o (IF HighConcentration(analysis)
             THEN <<[type |-> "cost_distribution", priority |-> "high"]>> ELSE << >>)
         \o (IF GreaterThan(forecasts.metrics.forecast_growth, 1, 5)
             THEN <<[type |-> "future_planning", priority |-> "high"]>> ELSE << >>)
         \o (IF HighUncertainty(forecasts)
             THEN <<[type |-> "risk_management", priority |-> "medium"]>> ELSE << >>)

\* _summarize_insights; an insight's description is told by its type.
SummarizeInsights(insights) ==
    [high_severity |-> Cardinality({i \in DOMAIN insights : insights[i].severity = "high"}),
     medium_severity |-> Cardinality({i \in DOMAIN insights : insights[i].severity = "medium"}),
     categories |-> {insights[i].category : i \in DOMAIN insights},
     top_insights |-> SelectSeq([i \in DOMAIN insights |->
                                    [severity |-> insights[i].severity,
                                     type |-> insights[i].type]],
                                LAMBDA e : e.severity = "high")]

\* _summarize_recommendations; a recommendation's title is told by its type.
SummarizeRecommendations(recommendations) ==
    [high_priority |->
        Cardinality({i \in DOMAIN recommendations : recommendations[i].priority = "high"}),
     medium_priority |->
        Cardinality({i \in DOMAIN recommendations : recommendations[i].priority = "medium"}),
     categories |-> {recommendations[i].type : i \in DOMAIN recommendations},
     top_recommendations |-> SelectSeq(recommendations, LAMBDA e : e.priority = "high")]

\* The summary dict of lines 232-250; a key that is missing raises KeyError
\* and the handler returns an error carrying the name of the key.
SummaryOf(result) ==
    IF \E k \in {"forecasts", "historical_analysis", "insights", "recommendations"} :
           k \notin DOMAIN result
    THEN [status |-> "error", message |-> "KeyError"]
    ELSE [historical_metrics |->
             [total_cost |-> result.historical_analysis.total_cost,
              average_monthly_cost |-> result.historical_analysis.average_monthly_cost,
              cost_trend |-> result.historical_analysis.trends.linear_trend.trend_type,
              cost_variability |->
                  Ratio(result.historical_analysis.cost_std_dev.num
                            * result.historical_analysis.average_monthly_cost.den
                            * result.historical_analysis.average_monthly_cost.den,
                        result.historical_analysis.cost_std_dev.den
                            * result.historical_analysis.average_monthly_cost.num
                            * result.historical_analysis.average_monthly_cost.num)],
          forecast_metrics |->
             [total_forecast |-> result.forecasts.metrics.total_forecast,
              average_monthly_forecast |-> result.forecasts.metrics.average_monthly_forecast,
              forecast_trend |-> result.forecasts.metrics.forecast_trend,
              forecast_growth |-> result.forecasts.metrics.forecast_growth],
          key_insights |-> SummarizeInsights(result.insights),
          key_recommendations |-> SummarizeRecommendations(result.recommendations),
          uncertainty_assessment |->
             SummarizeUncertainty(result.forecasts.metrics.uncertainty_metrics)]

\* get_forecast_summary without the test of result['status'].
GetForecastSummaryUnchecked(result) == SummaryOf(result)

\* get_forecast_summary: a result that is no success is answered at once.
GetForecastSummary(result) ==
    IF result.status # "success"
    THEN [status |-> "error", message |-> "Cannot generate summary from failed forecast"]
    ELSE SummaryOf(result)

----------------------------------------------------------------------------
(* CostForecaster.generate_forecast as one call *)

GenerateForecast(sc, md, data, analysis) ==
    LET df == PrepareData(data)
        xy == CreateFeatures(df)
        tr == TrainModel(sc, md, xy.X, xy.y)
    IN  IF Len(df) = 0 \/ Len(xy.X) = 0
        THEN [scaler |-> sc, model |-> md, result |-> None, steps |-> << >>]
        ELSE Bind(GeneratePredictionsTraced(df, analysis, tr.scaler, tr.model, ForecastPeriods),
                  LAMBDA g : [scaler |-> tr.scaler, model |-> tr.model,
                              result |-> g.result, steps |-> g.steps])

----------------------------------------------------------------------------
(* SpecRun: one run of CostForecastOptimizer.generate_cost_forecast on a    *)
(* new optimizer, against a cost source that the environment may change     *)

\* Usage histories around the minimum: 2 months fewer up to the longest.
RunHistories == {h \in Histories : Len(h) >= MinHistoricalMonths - 2}

\* months: int = 12, the default lookback of generate_cost_forecast.
DefaultMonths == 12

ConstantCosts == {0, 1}

\* A full default window of one observation per month, all of the same cost.
ConstantHistories ==
    {ProfileHistory(s, [i \in 1..DefaultMonths |-> c]) : s \in StartMonths, c \in ConstantCosts}

\* A minimum-length history whose odd months cost nothing.
ZeroMonthHistories ==
    {ProfileHistory(s, [i \in 1..MinHistoricalMonths |-> IF i % 2 = 1 THEN 0 ELSE c]) :
        s \in StartMonths, c \in Costs}

Sources ==
    {[fails |-> FALSE, items |-> h] :
        h \in RunHistories \cup ConstantHistories \cup ZeroMonthHistories}
    \cup {[fails |-> TRUE, items |-> << >>]}

IdleRun ==
    [pc |-> "idle", data1 |-> << >>, data2 |-> << >>, analysis |-> None, forecasts |-> None,
     steps |-> << >>, result |-> [status |-> "none"], summary |-> EmptyDict]

\* The usage records of the subscription change, or the service goes down.
SourceChange ==
    /\ run.pc \in {"idle", "forecast"}
    /\ \E src \in Sources : src # source /\ source' = src
    /\ UNCHANGED <<scaler, model, inv, run, obs, out>>

\* Lines 19-27: analyze_historical_costs and the first error return.
RunAnalyze ==
    /\ run.pc = "idle"
    /\ LET data == GetHistoricalCosts(source)
           analysis == AnalyzeHistoricalCosts(data)
       IN  run' = IF IsNone(analysis)
                  THEN [IdleRun EXCEPT !.pc = "done", !.data1 = data,
                            !.result = [status |-> "error",
                                        message |-> "Failed to analyze historical costs"]]
                  ELSE [IdleRun EXCEPT !.pc = "forecast", !.data1 = data,
                                       !.analysis = analysis]
    /\ UNCHANGED <<scaler, model, inv, source, obs, out>>

\* Lines 29-48: the second fetch, generate_forecast and the result.
RunForecast ==
    /\ run.pc = "forecast"
    /\ \E data \in {GetHistoricalCosts(source)} :
       \E r \in {GenerateForecast(scaler, model, data, run.analysis)} :
           /\ scaler' = r.scaler
           /\ model' = r.model
           /\ run' = [run EXCEPT !.pc = "done", !.data2 = data, !.forecasts = r.result,
                        !.steps = r.steps,
                        !.result = IF IsNone(r.result)
                                   THEN [status |-> "error",
                                         message |-> "Failed to generate forecasts"]
                                   ELSE [status |-> "success",
                                         historical_analysis |-> run.analysis,
                                         forecasts |-> r.result,
                                         insights |-> GenerateInsights(run.analysis, r.result),
                                         recommendations |->
                                            GenerateRecommendations(run.analysis, r.result)]]
    /\ UNCHANGED <<inv, source, obs, out>>

InitRun ==
    /\ scaler = UnfittedScaler
    /\ model = UnfittedModel
    /\ inv = [t \in Invocations |-> IdleInv]
    /\ source \in Sources
    /\ run = IdleRun
    /\ obs = Idle
    /\ out = Idle

\* get_forecast_summary(result) on the result of the run.
RunSummary ==
    /\ run.pc = "done"
    /\ run' = [run EXCEPT !.pc = "summarised", !.summary = GetForecastSummary(run.result)]
    /\ UNCHANGED <<scaler, model, inv, source, obs, out>>

NextRun == SourceChange \/ RunAnalyze \/ RunForecast \/ RunSummary

SpecRun == InitRun /\ [][NextRun]_vars

RunDone == run.pc = "done"

\* C4: a finished run over observations of exactly 6 distinct months is a
\* success, and a finished run over observations of fewer than 6 distinct
\* months is an error.
C4_MinimumHistory ==
    (RunDone /\ run.data1 = run.data2) =>
        /\ Cardinality(ObsMonths(run.data1)) = MinHistoricalMonths =>
               run.result.status = "success"
        /\ Cardinality(ObsMonths(run.data1)) < MinHistoricalMonths =>
               run.result.status = "error"

ResultKeys == {"historical_analysis", "forecasts", "insights", "recommendations"}

\* C29: a finished run has status 'success' exactly when its analysis is
\* there and its forecast is not None; a success carries the analysis, the
\* forecast and the insights and recommendations generated from those two; an
\* error carries a message and none of these keys; and the summary of a run
\* that is no success is the error 'Cannot generate summary from failed
\* forecast'.
C29_StatusAndKeys ==
    run.pc \in {"done", "summarised"} =>
        /\ run.result.status = "success"
               <=> (~IsNone(run.analysis) /\ ~IsNone(run.forecasts))
        /\ run.result.status = "success" =>
               /\ DOMAIN run.result = {"status"} \cup ResultKeys
               /\ run.result.historical_analysis = run.analysis
               /\ run.result.forecasts = run.forecasts
               /\ run.result.insights
                      = GenerateInsights(run.result.historical_analysis, run.result.forecasts)
               /\ run.result.recommendations
                      = GenerateRecommendations(run.result.historical_analysis,
                                                run.result.forecasts)
        /\ run.result.status # "success" =>
               /\ run.result.status = "error"
               /\ DOMAIN run.result = {"status", "message"}
               /\ run.pc = "summarised" =>
                      run.summary = [status |-> "error",
                                     message |-> "Cannot generate summary from failed forecast"]

\* The summary of a run that had its analysis and no forecast.
C29_Witness ==
    /\ run.pc = "summarised"
    /\ ~IsNone(run.analysis)
    /\ IsNone(run.forecasts)
    /\ run.result.status = "error"
    /\ run.summary.status = "error"

\* C30: in a run, whose analysis is the one analyze_historical_costs
\* produced, every forecast of the result has the point estimate and the date
\* that the prediction loop gave it: the seasonal adjustment changes neither,
\* and the forecast is returned.
C30_AdjustmentLeavesForecasts ==
    (run.pc \in {"done", "summarised"} /\ ~IsNone(run.forecasts)) =>
        /\ Len(run.forecasts.forecasts) = ForecastPeriods
        /\ \A p \in 1..ForecastPeriods :
               /\ run.forecasts.forecasts[p].forecast = run.steps[p].mean_pred
               /\ run.forecasts.forecasts[p].date = run.steps[p].date
        /\ run.result.status = "success"
        /\ run.result.forecasts = run.forecasts

\* A success whose analysis names a highest-cost month and quarter and whose
\* first point estimate is positive.
C30_Witness ==
    /\ run.pc = "done"
    /\ run.result.status = "success"
    /\ "highest_cost_month" \in DOMAIN run.analysis.seasonality.monthly.byName
    /\ "highest_cost_quarter" \in DOMAIN run.analysis.seasonality.quarterly.byName
    /\ run.forecasts.forecasts[1].forecast > 0

\* C27: the analysis and the forecast of a successful run are computed from
\* the same observation list, whatever the cost source does during the run.
C27_SameObservations ==
    (RunDone /\ run.result.status = "success") =>
        /\ run.data1 = run.data2
        /\ run.result.historical_analysis = AnalyzeHistoricalCosts(run.data2)

IsConstantSeries(data) ==
    /\ Len(data) = DefaultMonths
    /\ \A i \in 1..Len(data) :
           /\ data[i].cost = data[1].cost
           /\ data[i].resource_type = data[1].resource_type
           /\ data[i].date.ym = data[1].date.ym + i - 1

\* C11: a run over 12 months of one resource type at constant cost c
\* succeeds with every point estimate equal to c, relative_uncertainty 0 at
\* every level, and cost_concentration 1.0.
C11_ConstantSeries ==
    (RunDone /\ run.data1 = run.data2 /\ IsConstantSeries(run.data1)) =>
        /\ run.result.status = "success"
        /\ \A k \in 1..Len(run.result.forecasts.forecasts) :
               run.result.forecasts.forecasts[k].forecast = ValueScale * run.data1[1].cost
        /\ \A l \in Levels :
               /\ run.result.forecasts.metrics.uncertainty_metrics[l].relative_uncertainty.num = 0
               /\ run.result.forecasts.metrics.uncertainty_metrics[l].relative_uncertainty.den # 0
        /\ run.result.historical_analysis.cost_drivers.finite
        /\ run.result.historical_analysis.cost_drivers.cost_concentration = 100

Analysed == run.pc \in {"forecast", "done"} /\ ~IsNone(run.analysis)

\* The ratio statistics of an analysis.
AnalysisRatios(a) ==
    {a.seasonality.monthly.byName.seasonal_variation,
     a.seasonality.quarterly.byName.quarter_variation,
     a.seasonality.weekday.byName.day_variation,
     a.trends.volatility,
     a.trends.linear_trend.trend_strength,
     a.month_over_month_growth.average_growth,
     a.month_over_month_growth.last_month_growth}

\* Those whose denominator is the mean cost.
MeanRatios(a) ==
    {a.seasonality.monthly.byName.seasonal_variation,
     a.seasonality.quarterly.byName.quarter_variation,
     a.seasonality.weekday.byName.day_variation,
     a.trends.volatility,
     a.trends.linear_trend.trend_strength}

AnalysisKeys ==
    {"total_cost", "average_monthly_cost", "cost_std_dev", "min_monthly_cost",
     "max_monthly_cost", "month_over_month_growth", "seasonality", "cost_drivers", "trends"}

\* C14: in every analysis produced, each ratio statistic is finite, the ones
\* over a zero mean are 0, the cost shares over a zero total are finite, and
\* the analysis has all its parts.
C14_ZeroDenominatorDefaults ==
    Analysed =>
        /\ \A r \in AnalysisRatios(run.analysis) : IsFinite(r)
        /\ TotalCost(run.data1) = 0 =>
               \A r \in MeanRatios(run.analysis) : r.num = 0
        /\ run.analysis.cost_drivers.finite
        /\ DOMAIN run.analysis = AnalysisKeys

----------------------------------------------------------------------------
(* SpecSeries: the monthly series and the cost drivers of an observation    *)
(* list taken from a lookback window of LookbackMonths months               *)

\* The month of datetime.utcnow(): March 2024.
NowMonth == 2024 * 12 + 2

WindowMonths == (NowMonth - LookbackMonths + 1)..NowMonth

SeriesCosts == {0, 1, 2}

\* Up to MaxObs observations of one resource type, anywhere in the window.
SeriesLists ==
    UNION {[1..n -> {Observation(ym, 15, c, "VM") : ym \in WindowMonths, c \in SeriesCosts}] :
              n \in 0..MaxObs}

\* One observation for each of the first n resource types, in one month.
DriverLists ==
    UNION {{[i \in 1..n |-> Observation(NowMonth, 15, v[i], TypeOrder[i])] :
               v \in [1..n -> SeriesCosts]} : n \in 1..MaxTypes}

Pending == [seriesDone |-> FALSE, driversDone |-> FALSE, series |-> << >>, drivers |-> EmptyDict]

InitSeries ==
    /\ scaler = UnfittedScaler
    /\ model = UnfittedModel
    /\ inv = [t \in Invocations |-> IdleInv]
    /\ source = Idle
    /\ run = Idle
    /\ obs \in SeriesLists \cup DriverLists
    /\ out = Pending

\* CostForecaster._prepare_data(obs)
BuildSeries ==
    /\ ~out.seriesDone
    /\ out' = [out EXCEPT !.seriesDone = TRUE, !.series = PrepareData(obs)]
    /\ UNCHANGED <<scaler, model, inv, source, run, obs>>

\* CostForecastAnalyzer._analyze_cost_drivers on the frame of obs
\* (analyze_historical_costs returns before it when obs is empty).
AnalyzeDrivers ==
    /\ ~out.driversDone
    /\ Len(obs) > 0
    /\ out' = [out EXCEPT !.driversDone = TRUE, !.drivers = AnalyzeCostDrivers(obs)]
    /\ UNCHANGED <<scaler, model, inv, source, run, obs>>

NextSeries == BuildSeries \/ AnalyzeDrivers

SpecSeries == InitSeries /\ [][NextSeries]_vars

SumOfSquares(data) ==
    SeqSum([i \in 1..Len(TypeOrder) |->
               TypeCost(data, TypeOrder[i]) * TypeCost(data, TypeOrder[i])])

EquallySized(data) ==
    \A u \in ObsTypes(data), v \in ObsTypes(data) : TypeCost(data, u) = TypeCost(data, v)

\* C7 as stated: with a positive total, cost_concentration equals the sum
\* over all resource types of (cost_i / total)^2, lies in [0, 1], is 1 for a
\* single type and 1/N for N equally sized types.
C7_ConcentrationExact ==
    (out.driversDone /\ TotalCost(obs) > 0) =>
        /\ out.drivers.finite
        /\ out.drivers.cost_concentration * TotalCost(obs) * TotalCost(obs)
               = 100 * SumOfSquares(obs)
        /\ out.drivers.cost_concentration \in 0..100
        /\ Cardinality(ObsTypes(obs)) = 1 => out.drivers.cost_concentration = 100
        /\ EquallySized(obs) =>
               out.drivers.cost_concentration * Cardinality(ObsTypes(obs)) = 100

\* C7 amended: with a positive total, cost_concentration is within 0.01 of
\* the sum over all resource types of (cost_i / total)^2, lies in [0, 1], is
\* 1 for a single type and within 0.01 of 1/N for N equally sized types.
C7_ConcentrationRounded ==
    (out.driversDone /\ TotalCost(obs) > 0) =>
        /\ out.drivers.finite
        /\ Abs(out.drivers.cost_concentration * TotalCost(obs) * TotalCost(obs)
                   - 100 * SumOfSquares(obs)) <= TotalCost(obs) * TotalCost(obs)
        /\ out.drivers.cost_concentration \in 0..100
        /\ Cardinality(ObsTypes(obs)) = 1 => out.drivers.cost_concentration = 100
        /\ EquallySized(obs) =>
               Abs(out.drivers.cost_concentration * Cardinality(ObsTypes(obs)) - 100)
                   <= Cardinality(ObsTypes(obs))

\* Six equally sized resource types, one more than the five reported: the
\* concentration is 0.17.
C7_Witness ==
    /\ out.driversDone
    /\ Cardinality(ObsTypes(obs)) = 6
    /\ EquallySized(obs)
    /\ TotalCost(obs) > 0
    /\ out.drivers.cost_concentration = 17
    /\ Cardinality(DOMAIN out.drivers.top_resources) = 5

----------------------------------------------------------------------------
(* SpecChanges: _detect_trend_changes applied to a monthly series            *)

MaxSeries == 6

ChangeCosts == {0, 1, 4, 16}

\* The monthly series of the costs c for consecutive months from start.
ChangeSeries(start, c) ==
    [k \in 1..Len(c) |-> [date |-> MonthEnd(start + k - 1), cost |-> c[k]]]

NoChanges == [done |-> FALSE, trend_changes |-> EmptyDict]

InitChanges ==
    /\ scaler = UnfittedScaler
    /\ model = UnfittedModel
    /\ inv = [t \in Invocations |-> IdleInv]
    /\ source = Idle
    /\ run = Idle
    /\ \E n \in 1..MaxSeries, s \in StartMonths :
          \E c \in [1..n -> ChangeCosts] : obs = ChangeSeries(s, c)
    /\ out = NoChanges

\* self._detect_trend_changes(monthly)
DetectChanges ==
    /\ ~out.done
    /\ out' = [out EXCEPT !.done = TRUE, !.trend_changes = DetectTrendChanges(obs)]
    /\ UNCHANGED <<scaler, model, inv, source, run, obs>>

NextChanges == DetectChanges

SpecChanges == InitChanges /\ [][NextChanges]_vars

\* |cost(i) - mean| > 2 * std for the three months before month i (1-based),
\* std the sample standard deviation: with sum s and sum of squares q of the
\* three, mean = s / 3 and std^2 = (3q - s^2) / 6; both sides times 3, squared.
IsChangePoint(i) ==
    LET a == obs[i - 3].cost
        b == obs[i - 2].cost
        c == obs[i - 1].cost
        s == a + b + c
        q == a * a + b * b + c * c
        d == Abs(3 * obs[i].cost - s)
    IN  d * d > 6 * (3 * q - s * s)

ChangePoints == {i \in 1..Len(obs) : i >= 4 /\ IsChangePoint(i)}

\* C25: a month is a change point exactly when it is the fourth or a later
\* month of the series and its cost is further than twice the standard
\* deviation of the three months before it from their mean; change_points
\* is the number of such months, last_change the latest of them (None when
\* there is none) and stability is 'stable' exactly when there are at most
\* two.
C25_ChangePoints ==
    out.done =>
        /\ out.trend_changes.change_points = Cardinality(ChangePoints)
        /\ IF ChangePoints = {} THEN IsNone(out.trend_changes.last_change)
           ELSE out.trend_changes.last_change = obs[MaxOf(ChangePoints)].date
        /\ out.trend_changes.stability =
               IF Cardinality(ChangePoints) <= 2 THEN "stable" ELSE "volatile"

\* Three change points in the longest series, the last in its last month.
C25_Witness ==
    /\ out.done
    /\ Len(obs) = MaxSeries
    /\ out.trend_changes.change_points = 3
    /\ out.trend_changes.stability = "volatile"
    /\ out.trend_changes.last_change = obs[Len(obs)].date

----------------------------------------------------------------------------
(* SpecFindings: _generate_insights and _generate_recommendations applied to *)
(* an analysis dict and a forecasts dict                                     *)

FindingAnalyses ==
    {[trends |-> [linear_trend |-> [trend_type |-> tt, trend_strength |-> ts]],
      seasonality |-> [monthly |-> mp],
      cost_drivers |-> [top_resources |-> EmptyDict, finite |-> TRUE,
                        cost_concentration |-> cc]] :
        tt \in {"increasing", "decreasing"},
        ts \in {Ratio(1, 10), Ratio(1, 5)},
        mp \in {NamedPattern(EmptyDict), NamedPattern([highest_cost_month |-> 1])},
        cc \in {50, 51}}
    \cup {[trends |-> EmptyDict,
           seasonality |-> [monthly |-> NamedPattern(EmptyDict)],
           cost_drivers |-> [top_resources |-> EmptyDict, finite |-> TRUE,
                             cost_concentration |-> 100]]}

FindingForecasts ==
    {[metrics |-> [forecast_growth |-> g,
                   uncertainty_metrics |-> [l \in Levels |-> [relative_uncertainty |-> u[l]]]]] :
        g \in {Ratio(-1, 2), Ratio(1, 5), Ratio(1, 2), NaN},
        u \in [Levels -> {Ratio(1, 5), Ratio(1, 2)}]
              \cup {[l \in Levels |-> r] : r \in {Ratio(1, 10), Ratio(3, 20)}}}

NoFindings == [insightsDone |-> FALSE, recommendationsDone |-> FALSE,
               uncertaintyDone |-> FALSE,
               insights |-> << >>, recommendations |-> << >>,
               uncertainty_assessment |-> EmptyDict]

InitFindings ==
    /\ scaler = UnfittedScaler
    /\ model = UnfittedModel
    /\ inv = [t \in Invocations |-> IdleInv]
    /\ source = Idle
    /\ run = Idle
    /\ obs \in {[analysis |-> a, forecasts |-> f] : a \in FindingAnalyses, f \in FindingForecasts}
    /\ out = NoFindings

\* self._generate_insights(analysis, forecasts)
Insights ==
    /\ ~out.insightsDone
    /\ out' = [out EXCEPT !.insightsDone = TRUE,
                          !.insights = GenerateInsights(obs.analysis, obs.forecasts)]
    /\ UNCHANGED <<scaler, model, inv, source, run, obs>>

\* self._generate_recommendations(analysis, forecasts)
Recommendations ==
    /\ ~out.recommendationsDone
    /\ out' = [out EXCEPT !.recommendationsDone = TRUE,
                          !.recommendations =
                              GenerateRecommendations(obs.analysis, obs.forecasts)]
    /\ UNCHANGED <<scaler, model, inv, source, run, obs>>

\* self._summarize_uncertainty(forecasts['metrics']['uncertainty_metrics'])
UncertaintySummary ==
    /\ ~out.uncertaintyDone
    /\ out' = [out EXCEPT !.uncertaintyDone = TRUE,
                          !.uncertainty_assessment =
                              SummarizeUncertainty(obs.forecasts.metrics.uncertainty_metrics)]
    /\ UNCHANGED <<scaler, model, inv, source, run, obs>>

NextFindings == Insights \/ Recommendations \/ UncertaintySummary

SpecFindings == InitFindings /\ [][NextFindings]_vars

\* The kind of finding an insight or a recommendation reports.
KindOf(entry) ==
    CASE entry.type \in {"trend", "cost_optimization"} -> "trend"
      [] entry.type \in {"pattern", "resource_management"} -> "seasonality"
      [] entry.type \in {"concentration", "cost_distribution"} -> "concentration"
      [] entry.type \in {"uncertainty", "risk_management"} -> "uncertainty"
      [] entry.type \in {"growth", "future_planning"} -> "growth"

InsightOrder == <<"trend", "seasonality", "concentration", "uncertainty", "growth">>

RecommendationOrder == <<"trend", "seasonality", "concentration", "growth", "uncertainty">>

RankIn(order, kind) == CHOOSE i \in DOMAIN order : order[i] = kind

InOrder(list, order) ==
    \A i \in DOMAIN list, j \in DOMAIN list :
        i < j => RankIn(order, KindOf(list[i])) < RankIn(order, KindOf(list[j]))

\* The insights of one type in the list returned.
InsightsOfType(type) == {i \in DOMAIN out.insights : out.insights[i].type = type}

C24_UncertaintyRatedHigh ==
    (out.insightsDone /\ out.uncertaintyDone) =>
        LET high == \E l \in Levels :
                        GreaterThan(obs.forecasts.metrics.uncertainty_metrics[l].relative_uncertainty,
                                    1, 5)
        IN  /\ (out.uncertainty_assessment.overall_assessment = "high") <=> high
            /\ \A i \in InsightsOfType("uncertainty") :
                   high /\ out.insights[i].severity = "high"

\* C13 as stated: the insights and the recommendations both list their
\* findings in the order trend, seasonality, concentration, uncertainty,
\* growth.
C13_BothInInsightOrder ==
    /\ out.insightsDone => InOrder(out.insights, InsightOrder)
    /\ out.recommendationsDone => InOrder(out.recommendations, InsightOrder)

\* C13 amended: the insights list their findings in the order trend,
\* seasonality, concentration, uncertainty, growth; the recommendations in
\* the order trend, seasonality, concentration, growth, uncertainty.
C13_InsertionOrder ==
    /\ out.insightsDone => InOrder(out.insights, InsightOrder)
    /\ out.recommendationsDone => InOrder(out.recommendations, RecommendationOrder)

\* All five findings are present in both lists.
C13_Witness ==
    /\ out.insightsDone
    /\ out.recommendationsDone
    /\ Len(out.insights) = 5
    /\ Len(out.recommendations) = 5

----------------------------------------------------------------------------
(* VMOptimizer and StorageOptimizer (optimizers/vm/optimizer.py,             *)
(* optimizers/storage/optimizer.py): a resource is a VM or a storage         *)
(* account, kind is "vm" or "storage"                                        *)

MaxGroups == 2

MaxAccounts == 2

Kinds == {"vm", "storage"}

NameKey(kind) == IF kind = "vm" THEN "vm_name" ELSE "account_name"

CountKey(kind) == IF kind = "vm" THEN "vm_count" ELSE "account_count"

\* A recommendation of the recommender, with the monthly saving its
\* estimated_savings stands for.
Rec(type, impact, monthly) ==
    [type |-> type, impact |-> impact, description |-> type, monthly |-> monthly]

RecLists ==
    {<< >>,
     <<Rec("storage_tier", "high", 3)>>,
     <<Rec("lifecycle_policy", "high", 0), Rec("redundancy", "medium", 2)>>}

\* What the cloud holds: a resource whose analysis succeeds (with the
\* recommendations it leads to) or fails, groups of resources whose listing
\* succeeds or raises.
ResourceOptions ==
    {[ok |-> FALSE, recs |-> << >>]} \cup {[ok |-> TRUE, recs |-> r] : r \in RecLists}

GroupOptions ==
    {[listFails |-> TRUE, resources |-> << >>]}
    \cup {[listFails |-> FALSE, resources |-> rs] :
             rs \in UNION {[1..n -> ResourceOptions] : n \in 0..MaxAccounts}}

\* The subscriptions of up to maxGroups resource groups.
Subscriptions(maxGroups) ==
    {[listFails |-> TRUE, groups |-> << >>]}
    \cup {[listFails |-> FALSE, groups |-> gs] :
             gs \in UNION {[1..n -> GroupOptions] : n \in 1..maxGroups}}

\* calculate_savings / _calculate_total_savings: the savings of the
\* recommendations added up, the annual figure 12 times the monthly one.
CalculateSavings(recs) ==
    Bind(SeqSum([k \in 1..Len(recs) |-> recs[k].monthly]),
         LAMBDA m : [monthly_savings |-> m, annual_savings |-> 12 * m, currency |-> "USD"])

\* optimize_vm / optimize_storage_account for resource i of group g.
OptimizeResource(kind, g, i, res) ==
    IF ~res.ok
    THEN [status |-> "error", message |-> "Failed to analyze"]
    ELSE (NameKey(kind) :> <<g, i>>)
         @@ [status |-> "success", resource_group |-> g, analysis |-> "analysis",
             recommendations |-> res.recs,
             potential_savings |-> CalculateSavings(res.recs)]

SuccessfulSavings(results, field) ==
    SeqSum([k \in 1..Len(results) |->
               IF results[k].status = "success" THEN results[k].potential_savings[field]
               ELSE 0])

\* optimize_resource_group: every result of the loop is appended as it is;
\* the storage optimizer also adds up the savings of the successful ones.
OptimizeResourceGroup(kind, g, grp) ==
    IF grp.listFails
    THEN [status |-> "error", message |-> "listing failed"]
    ELSE Bind([i \in 1..Len(grp.resources) |-> OptimizeResource(kind, g, i, grp.resources[i])],
              LAMBDA results :
                 (CountKey(kind) :> Len(results))
                 @@ [status |-> "success", resource_group |-> g, results |-> results]
                 @@ (IF kind = "storage"
                     THEN [total_potential_savings |->
                              [monthly |-> SuccessfulSavings(results, "monthly_savings"),
                               annual |-> SuccessfulSavings(results, "annual_savings")]]
                     ELSE EmptyDict))

GroupSavings(results, field) ==
    SeqSum([k \in 1..Len(results) |->
               IF results[k].status = "success"
               THEN results[k].total_potential_savings[field] ELSE 0])

\* optimize_subscription
OptimizeSubscription(kind, sub) ==
    IF sub.listFails
    THEN [status |-> "error", message |-> "listing failed"]
    ELSE Bind([g \in 1..Len(sub.groups) |-> OptimizeResourceGroup(kind, g, sub.groups[g])],
              LAMBDA results :
                 [status |-> "success", subscription_id |-> "sub",
                  resource_group_count |-> Len(results), results |-> results]
                 @@ (IF kind = "storage"
                     THEN [total_potential_savings |->
                              [monthly |-> GroupSavings(results, "monthly"),
                               annual |-> GroupSavings(results, "annual")]]
                     ELSE EmptyDict))

RECURSIVE Flatten(_)
Flatten(lists) ==
    IF Len(lists) = 0 THEN << >> ELSE lists[1] \o Flatten(Tail(lists))

\* The results _process_optimization_results treats as one account each: the
\* dicts without a 'results' key, in the order of the recursion.
RECURSIVE Leaves(_)
Leaves(result) ==
    IF "results" \in DOMAIN result
    THEN Flatten([k \in 1..Len(result.results) |-> Leaves(result.results[k])])
    ELSE <<result>>

\* result.get('recommendations'), [] when the key is missing.
RecsOf(result) ==
    IF "recommendations" \in DOMAIN result THEN result.recommendations ELSE << >>

\* get_optimization_summary and _process_optimization_results.
GetOptimizationSummary(result) ==
    IF result.status # "success"
    THEN [status |-> "error", message |-> "Cannot generate summary from failed optimization"]
    ELSE Bind(Leaves(result),
              LAMBDA leaves :
                 Bind(Flatten([k \in 1..Len(leaves) |->
                                  [j \in 1..Len(RecsOf(leaves[k])) |->
                                      [account |-> leaves[k].account_name,
                                       type |-> RecsOf(leaves[k])[j].type,
                                       impact |-> RecsOf(leaves[k])[j].impact,
                                       description |-> RecsOf(leaves[k])[j].description]]]),
                      LAMBDA recs :
                         [total_accounts_analyzed |-> Len(leaves),
                          accounts_with_recommendations |->
                             Cardinality({k \in 1..Len(leaves) : Len(RecsOf(leaves[k])) > 0}),
                          total_recommendations |-> Len(recs),
                          recommendation_types |->
                             [t \in {recs[j].type : j \in 1..Len(recs)} |->
                                 Cardinality({j \in 1..Len(recs) : recs[j].type = t})],
                          potential_savings |->
                             [monthly |-> SeqSum([k \in 1..Len(leaves) |->
                                             IF "potential_savings" \in DOMAIN leaves[k]
                                             THEN leaves[k].potential_savings.monthly_savings
                                             ELSE 0]),
                              annual |-> SeqSum([k \in 1..Len(leaves) |->
                                            IF "potential_savings" \in DOMAIN leaves[k]
                                            THEN leaves[k].potential_savings.annual_savings
                                            ELSE 0]),
                              currency |-> "USD"],
                          high_impact_recommendations |->
                             SelectSeq(recs, LAMBDA r : r.impact = "high")]))

----------------------------------------------------------------------------
(* SpecGroups: one optimize call of a VMOptimizer or a StorageOptimizer on a *)
(* subscription, and the summary of its result                               *)

NoCall == [pc |-> "idle"]

\* The resources (group, position) that the groups gs hold.
ScopeOf(gs) == UNION {{<<g, i>> : i \in DOMAIN source.groups[g].resources} : g \in gs}

InitGroups ==
    /\ scaler = UnfittedScaler
    /\ model = UnfittedModel
    /\ inv = [t \in Invocations |-> IdleInv]
    /\ source \in Subscriptions(MaxGroups)
    /\ run = NoCall
    /\ obs = Idle
    /\ out = Idle

\* optimize_vm(resource_group, vm_name) / optimize_storage_account(...)
OptimizeResourceCall ==
    /\ run.pc = "idle"
    /\ \E kind \in Kinds, g \in DOMAIN source.groups :
         \E i \in DOMAIN source.groups[g].resources :
            run' = [pc |-> "done", kind |-> kind, call |-> "resource", scope |-> {<<g, i>>},
                    result |-> OptimizeResource(kind, g, i, source.groups[g].resources[i])]
    /\ UNCHANGED <<scaler, model, inv, source, obs, out>>

\* optimize_resource_group(resource_group)
OptimizeResourceGroupCall ==
    /\ run.pc = "idle"
    /\ \E kind \in Kinds, g \in DOMAIN source.groups :
         run' = [pc |-> "done", kind |-> kind, call |-> "resource_group",
                 scope |-> ScopeOf({g}),
                 result |-> OptimizeResourceGroup(kind, g, source.groups[g])]
    /\ UNCHANGED <<scaler, model, inv, source, obs, out>>

\* optimize_subscription()
OptimizeSubscriptionCall ==
    /\ run.pc = "idle"
    /\ \E kind \in Kinds :
         run' = [pc |-> "done", kind |-> kind, call |-> "subscription",
                 scope |-> ScopeOf(DOMAIN source.groups),
                 result |-> OptimizeSubscription(kind, source)]
    /\ UNCHANGED <<scaler, model, inv, source, obs, out>>

\* StorageOptimizer.get_optimization_summary(result)
Summarize ==
    /\ run.pc = "done"
    /\ run.kind = "storage"
    /\ out = Idle
    /\ out' = GetOptimizationSummary(run.result)
    /\ UNCHANGED <<scaler, model, inv, source, run, obs>>

NextGroups ==
    OptimizeResourceCall \/ OptimizeResourceGroupCall \/ OptimizeSubscriptionCall \/ Summarize

SpecGroups == InitGroups /\ [][NextGroups]_vars

\* C17: a successful resource-group result counts its entries, and every
\* entry has 'status', the resource name and 'recommendations'; every entry
\* of a successful subscription result has 'status', 'resource_group' and
\* 'results'.
C17_EntriesCarryKeys ==
    (run.pc = "done" /\ run.result.status = "success") =>
        /\ run.call = "resource_group" =>
               /\ run.result[CountKey(run.kind)] = Len(run.result.results)
               /\ \A k \in DOMAIN run.result.results :
                      {"status", NameKey(run.kind), "recommendations"}
                          \subseteq DOMAIN run.result.results[k]
        /\ run.call = "subscription" =>
               \A k \in DOMAIN run.result.results :
                   {"status", "resource_group", "results"}
                       \subseteq DOMAIN run.result.results[k]

\* The resources of the call's groups whose analysis succeeded, where the
\* listing of the group succeeded.
AnalysedResources == {p \in run.scope : source.groups[p[1]].resources[p[2]].ok}

RecsIn(p) == source.groups[p[1]].resources[p[2]].recs

SummaryKeys ==
    {"total_accounts_analyzed", "accounts_with_recommendations", "total_recommendations",
     "recommendation_types", "potential_savings", "high_impact_recommendations"}

RECURSIVE SumOver(_, _)
SumOver(S, f) ==
    IF S = {} THEN 0
    ELSE LET x == CHOOSE z \in S : TRUE
         IN  f[x] + SumOver(S \ {x}, f)

\* C18: the summary of a successful result has the six fields, counts the
\* storage accounts that were analysed (failed results are not counted), and
\* adds up their recommendations and savings.
C18_SummaryCounts ==
    (out # Idle /\ run.result.status = "success") =>
        /\ DOMAIN out = SummaryKeys
        /\ out.total_accounts_analyzed = Cardinality(AnalysedResources)
        /\ out.total_recommendations
               = SumOver(DOMAIN out.recommendation_types, out.recommendation_types)
        /\ out.total_recommendations
               = SumOver(AnalysedResources, [p \in AnalysedResources |-> Len(RecsIn(p))])
        /\ out.potential_savings.monthly
               = SumOver(AnalysedResources,
                         [p \in AnalysedResources |-> CalculateSavings(RecsIn(p)).monthly_savings])
        /\ out.potential_savings.annual
               = SumOver(AnalysedResources,
                         [p \in AnalysedResources |-> CalculateSavings(RecsIn(p)).annual_savings])

====
